---- MODULE Spec2Model ----
(***************************************************************************)
(* A model of mimic-window: the application state store                    *)
(* (src/core/state-manager.ts), the layout engine                          *)
(* (src/core/layout-manager.ts), the controller FileManager                *)
(* (core/file-manager.ts), the event bus and the pointer decoder            *)
(* (events/*.ts) and the process entry point (src/index.ts).                *)
(*                                                                         *)
(* Several specifications share the variables below; each one drives its   *)
(* own group and leaves the other groups at their initial value:           *)
(*   Spec       the controller handling events over a small file system    *)
(*   SpecClip   the controller's clipboard events                          *)
(*   SpecStore  the store's action methods with subscribed listeners       *)
(*   SpecLife   start() and stop() called in any order, timer and resize   *)
(*   SpecMain   the process: main(), the signals, the exit                 *)
(*   SpecBus    the event bus                                              *)
(*   SpecMouse  the pointer decoder's click / double-click classification  *)
(*   SpecLayout the layout engine's functions on terminal sizes and cells  *)
(*   SpecNames  getUniqueFileName on a directory of existing names         *)
(*   SpecMenu   createContextMenu's placement of the menu box               *)
(*   SpecLoadFail, SpecFail  the controller's events whose scan,            *)
(*              file-system call or launcher is rejected                    *)
(*   SpecHeap   the store's state as objects: getState() and the updaters   *)
(*   SpecKeys   the keyboard decoder on one chunk of input                  *)
(*   SpecRace   navigation while a directory scan is still pending          *)
(*   SpecReload selection moves across reloads of the list                  *)
(*   SpecMove   moveSelection on one list, index and row width              *)
(*   SpecPointer  the controller's mouse handlers with the pointer          *)
(*              position of the last event kept in clicks                   *)
(*   SpecTarget, SpecOverlap  context-menu actions after navigation; the    *)
(*              clipboard events while a paste is pending                   *)
(*   SpecStop   SpecLife with a file operation pending at stop()            *)
(*   SpecDecode, SpecReport  the pointer decoder on one chunk of input,     *)
(*              and on SGR reports at increasing times                      *)
(*   SpecDecoders  start() and stop() of the two input decoders             *)
(*   SpecRound  one emit or notification round with handlers that           *)
(*              unsubscribe themselves                                      *)
(*   SpecHit    the rendered frame against the hit test                     *)
(***************************************************************************)
EXTENDS Integers, Sequences, FiniteSets, TLC

VARIABLES
    state,      \* StateManager.state (AppState)
    fs,         \* the file system: the set of existing entries
    tasks,      \* async handlers of the controller suspended at an await
    isRunning,  \* FileManager.isRunning
    lastEvent,  \* history: the event handled by the last step
    listeners,  \* StateManager.listeners, in subscription order
    calls,      \* history: the listener calls of the last store action
    lastStore,  \* history: the store method called by the last step
    life,       \* the terminal, the decoders, the timers and the bus handlers
    effects,    \* history: what the last lifecycle, timer or resize step did
    proc,       \* where main() of the process is
    bus,        \* SimpleEventBus.handlers and the history of the last call
    mouse,      \* MouseHandler's click tracking fields
    now,        \* Date.now()
    clicks,     \* history: the pointer events passed to emitMouseEvent
    probe       \* the call of a pure function (its inputs and its result), or
                \* the object heap of SpecHeap

ctlVars == <<state, fs, tasks, isRunning, lastEvent>>

storeVars == <<listeners, calls, lastStore>>

lifeVars == <<life, effects, proc>>

busVars == <<bus>>

mouseVars == <<mouse, now, clicks>>

pureVars == <<probe>>

\* what the controller's event handlers leave alone
nonCtlVars == <<storeVars, lifeVars, busVars, mouseVars, pureVars>>

\* what the store's methods leave alone
nonStoreVars == <<fs, tasks, isRunning, lastEvent, lifeVars, busVars, mouseVars, pureVars>>

vars == <<ctlVars, storeVars, lifeVars, busVars, mouseVars, pureVars>>

(***************************************************************************)
(* Bounds of the model.                                                    *)
(***************************************************************************)
MaxTasks == 1   \* async handlers suspended at the same time
MaxCopy == 1    \* largest " (n)" suffix a paste may create
MaxDepth == 2   \* longest path, in components
MaxListeners == 2   \* subscriptions to the store at the same time
MaxStarts == 2  \* calls of start() that find the controller stopped
MaxSubs == 2    \* handlers subscribed to one topic of the bus
MaxClicks == 3  \* pointer events in one behaviour
MaxWidth == 30  \* widest terminal, and the rightmost column hit-tested
MaxHeight == 17 \* tallest terminal, and the lowest row hit-tested
MaxItems == 6   \* most items a hit test is told of

(***************************************************************************)
(* Values.                                                                 *)
(***************************************************************************)
Null == [null |-> TRUE]

\* the null of clipboardOperation (a string-typed field)
NullOp == "null"

\* no pure function has been called
NoProbe == [op |-> "none"]

PureIdle == probe = NoProbe

\* a file name as path.extname and the template of getUniqueFileName take it
\* apart: the stem, the " (n)" suffixes it carries (in order), the extension
Name(stem, copy, ext) == [stem |-> stem, copy |-> copy, ext |-> ext]

Entry(path, type) == [name |-> path[Len(path)], path |-> path, type |-> type]

Root == <<>>

DirD == Entry(<<Name("d", <<>>, "")>>, "directory")

FileA == Entry(<<Name("a", <<>>, "")>>, "file")

FileB == Entry(<<Name("b", <<>>, "")>>, "file")

FileDA == Entry(<<Name("d", <<>>, ""), Name("a", <<>>, "")>>, "file")

\* path.dirname: the parent of the root is the root
getParentPath(p) == IF Len(p) = 0 THEN p ELSE SubSeq(p, 1, Len(p) - 1)

\* path.basename
basename(p) == p[Len(p)]

\* path.join(dir, name)
joinPath(dir, name) == Append(dir, name)

Size(w, h) == [width |-> w, height |-> h]

\* terminal sizes the environment reports: the default 80x24 and a narrow one
TerminalSizes == {Size(80, 24), Size(30, 12)}

\* the cells (0-based x, y) the environment clicks at: the window border,
\* the first grid cell and the second one
ClickPositions == {<<1, 3>>, <<2, 4>>, <<15, 4>>}

Directions == {"up", "down", "left", "right"}

(***************************************************************************)
(* The layout engine (LayoutManager).                                      *)
(***************************************************************************)
ITEM_WIDTH == 13

ITEM_HEIGHT == 5

HEADER_HEIGHT == 3

FOOTER_HEIGHT == 2

MIN_ITEMS_PER_ROW == 1

Max(a, b) == IF a >= b THEN a ELSE b

Min(a, b) == IF a <= b THEN a ELSE b

\* Math.floor(a / b) for b > 0; \div rounds towards minus infinity as floor does
FloorDiv(a, b) == a \div b

\* a calculateLayout without the lower limits of one column and one row
calculateLayout_NoMinimum(terminalSize) ==
    [itemsPerRow |-> FloorDiv(terminalSize.width - 4, ITEM_WIDTH),
     totalRows |-> FloorDiv(terminalSize.height - HEADER_HEIGHT - FOOTER_HEIGHT - 2, ITEM_HEIGHT),
     itemWidth |-> ITEM_WIDTH,
     itemHeight |-> ITEM_HEIGHT,
     startY |-> HEADER_HEIGHT + 1]

calculateLayout(terminalSize) ==
    LET availableWidth == terminalSize.width - 4
        availableHeight == terminalSize.height - HEADER_HEIGHT - FOOTER_HEIGHT - 2
        maxRows == FloorDiv(availableHeight, ITEM_HEIGHT)
    IN [itemsPerRow |-> Max(MIN_ITEMS_PER_ROW, FloorDiv(availableWidth, ITEM_WIDTH)),
        totalRows |-> Max(1, maxRows),
        itemWidth |-> ITEM_WIDTH,
        itemHeight |-> ITEM_HEIGHT,
        startY |-> HEADER_HEIGHT + 1]

\* a getItemPosition that forgets the left border
getItemPosition_NoBorder(index, layout) ==
    LET row == FloorDiv(index, layout.itemsPerRow)
        col == index % layout.itemsPerRow
    IN [x |-> col * layout.itemWidth,
        y |-> layout.startY + row * layout.itemHeight,
        row |-> row, col |-> col, index |-> index]

getItemPosition(index, layout) ==
    LET row == FloorDiv(index, layout.itemsPerRow)
        col == index % layout.itemsPerRow
    IN [x |-> col * layout.itemWidth + 2,
        y |-> layout.startY + row * layout.itemHeight,
        row |-> row, col |-> col, index |-> index]

\* a getItemIndexFromPosition without the test of the column
getItemIndexFromPosition_NoColumnTest(x, y, layout, totalItems) ==
    IF y < layout.startY \/ x < 2
    THEN -1
    ELSE LET col == FloorDiv(x - 2, layout.itemWidth)
             row == FloorDiv(y - layout.startY, layout.itemHeight)
             index == row * layout.itemsPerRow + col
         IN IF index < totalItems THEN index ELSE -1

getItemIndexFromPosition(x, y, layout, totalItems) ==
    IF y < layout.startY \/ x < 2
    THEN -1
    ELSE LET adjustedX == x - 2
             adjustedY == y - layout.startY
             col == FloorDiv(adjustedX, layout.itemWidth)
             row == FloorDiv(adjustedY, layout.itemHeight)
             index == row * layout.itemsPerRow + col
         IN IF col >= layout.itemsPerRow
            THEN -1
            ELSE IF index < totalItems THEN index ELSE -1

(***************************************************************************)
(* The state store (StateManager).  Every action method is                 *)
(* updateState(updater): the operators below are the updaters; the         *)
(* notification round is modelled where listeners matter (SpecStore).      *)
(***************************************************************************)
\* the state the constructor builds
InitialState(initialPath, terminalSize) ==
    [viewport |-> [currentPath |-> initialPath,
                   items |-> <<>>,
                   terminalSize |-> terminalSize,
                   itemsPerRow |-> 0,
                   totalRows |-> 0],
     selection |-> [selectedIndex |-> -1, selectedItem |-> Null],
     contextMenu |-> [visible |-> FALSE, position |-> [x |-> 0, y |-> 0], targetItem |-> Null],
     clipboard |-> Null,
     clipboardOperation |-> NullOp]

\* items[i] of a JavaScript array (0-based); undefined outside it, which
\* "|| null" turns into null
ItemAt(items, i) == IF i >= 0 /\ i < Len(items) THEN items[i + 1] ELSE Null

setCurrentPath(s, path) == [s EXCEPT !.viewport.currentPath = path]

setFileItems(s, items) == [s EXCEPT !.viewport.items = items]

setTerminalSize(s, size) == [s EXCEPT !.viewport.terminalSize = size]

setLayoutInfo(s, itemsPerRow, totalRows) ==
    [s EXCEPT !.viewport.itemsPerRow = itemsPerRow, !.viewport.totalRows = totalRows]

setSelection(s, index, item) ==
    [s EXCEPT !.selection = [selectedIndex |-> index, selectedItem |-> item]]

clearSelection(s) == setSelection(s, -1, Null)

\* a moveSelection that steps without clamping
moveIndex_Unclamped(s, direction) ==
    CASE direction = "left" -> s.selection.selectedIndex - 1
      [] direction = "right" -> s.selection.selectedIndex + 1
      [] direction = "up" -> s.selection.selectedIndex - s.viewport.itemsPerRow
      [] direction = "down" -> s.selection.selectedIndex + s.viewport.itemsPerRow

\* the index moveSelection computes
moveIndex(s, direction) ==
    LET selectedIndex == s.selection.selectedIndex
        len == Len(s.viewport.items)
        itemsPerRow == s.viewport.itemsPerRow
    IN CASE direction = "left" -> Max(0, selectedIndex - 1)
         [] direction = "right" -> Min(len - 1, selectedIndex + 1)
         [] direction = "up" -> Max(0, selectedIndex - itemsPerRow)
         [] direction = "down" -> Min(len - 1, selectedIndex + itemsPerRow)

\* a moveSelection that moves the index and keeps the item it holds
moveSelection_KeepsItem(s, direction) ==
    IF Len(s.viewport.items) = 0
    THEN s
    ELSE setSelection(s, moveIndex(s, direction), s.selection.selectedItem)

moveSelection(s, direction) ==
    IF Len(s.viewport.items) = 0
    THEN s
    ELSE LET newIndex == moveIndex(s, direction)
         IN setSelection(s, newIndex, ItemAt(s.viewport.items, newIndex))

showContextMenu(s, position, targetItem) ==
    [s EXCEPT !.contextMenu = [visible |-> TRUE, position |-> position, targetItem |-> targetItem]]

hideContextMenu(s) == [s EXCEPT !.contextMenu.visible = FALSE]

setClipboard(s, item, operation) ==
    [s EXCEPT !.clipboard = item, !.clipboardOperation = operation]

\* a clearClipboard that forgets the operation
clearClipboard_KeepsOperation(s) == setClipboard(s, Null, s.clipboardOperation)

clearClipboard(s) == setClipboard(s, Null, NullOp)

(***************************************************************************)
(* The file system behind FileScanner and FileOperations: a set of         *)
(* entries; the root always exists.                                        *)
(***************************************************************************)
IsPrefix(p, q) == Len(p) <= Len(q) /\ SubSeq(q, 1, Len(p)) = p

Exists(f, path) == path = Root \/ \E e \in f : e.path = path

IsDirectory(f, path) == path = Root \/ \E e \in f : e.path = path /\ e.type = "directory"

Children(f, dir) == {e \in f : Len(e.path) = Len(dir) + 1 /\ getParentPath(e.path) = dir}

\* the order of localeCompare on the stems the model uses
StemRank(stem) == CASE stem = "a" -> 1 [] stem = "b" -> 2 [] stem = "d" -> 3 [] OTHER -> 4

\* localeCompare on the " (n)" suffixes of two names with the same stem and
\* no extension: a proper prefix first, else the first differing counter
CopyBefore(c, d) ==
    \/ Len(c) < Len(d) /\ SubSeq(d, 1, Len(c)) = c
    \/ \E i \in 1..Min(Len(c), Len(d)) :
           SubSeq(c, 1, i - 1) = SubSeq(d, 1, i - 1) /\ c[i] < d[i]

\* the comparator of scanDirectory's sort: directories first, then by name
SortsBefore(a, b) ==
    IF a.type # b.type
    THEN a.type = "directory"
    ELSE \/ StemRank(a.name.stem) < StemRank(b.name.stem)
         \/ a.name.stem = b.name.stem /\ CopyBefore(a.name.copy, b.name.copy)

RECURSIVE SortEntries(_)
SortEntries(S) ==
    IF S = {}
    THEN <<>>
    ELSE LET first == CHOOSE e \in S : \A o \in S \ {e} : SortsBefore(e, o)
         IN <<first>> \o SortEntries(S \ {first})

\* FileScanner.scanDirectory: readdir rejects when dirPath is no directory
scanFails(f, dirPath) == ~IsDirectory(f, dirPath)

scanDirectory(f, dirPath) == SortEntries(Children(f, dirPath))

\* the entries of the tree at src, moved under dst
Rebase(f, src, dst) ==
    {Entry(dst \o SubSeq(e.path, Len(src) + 1, Len(e.path)), e.type) :
        e \in {x \in f : IsPrefix(src, x.path)}}

\* FileOperations.delete: stat rejects when the path is gone
deleteFails(f, filePath) == ~Exists(f, filePath)

deleteEntry(f, filePath) == {e \in f : ~IsPrefix(filePath, e.path)}

\* FileOperations.copy: stat(source) or the write into a missing directory rejects
copyFails(f, source, destination) ==
    ~Exists(f, source) \/ ~IsDirectory(f, getParentPath(destination))

copyEntry(f, source, destination) == f \cup Rebase(f, source, destination)

\* FileOperations.move (fs.rename): also rejects moving a directory into itself
moveFails(f, source, destination) ==
    \/ ~Exists(f, source)
    \/ ~IsDirectory(f, getParentPath(destination))
    \/ IsPrefix(source, destination)

moveEntry(f, source, destination) ==
    deleteEntry(f, source) \cup Rebase(f, source, destination)

\* FileOperations.getUniqueFileName: the do-while loop from counter on
\* (name is basename(filePath, ext) and ext is extname(filePath): the new
\* name is `${name} (${counter})${ext}`)
RECURSIVE uniqueFrom(_, _, _, _)
uniqueFrom(f, dir, base, counter) ==
    LET newPath == joinPath(dir, Name(base.stem, Append(base.copy, counter), base.ext))
    IN IF Exists(f, newPath) THEN uniqueFrom(f, dir, base, counter + 1) ELSE newPath

getUniqueFileName_FirstSuffix(f, filePath) ==
    IF ~Exists(f, filePath)
    THEN filePath
    ELSE LET base == basename(filePath)
         IN joinPath(getParentPath(filePath),
                     Name(base.stem, Append(base.copy, 1), base.ext))

getUniqueFileName(f, filePath) ==
    IF ~Exists(f, filePath)
    THEN filePath
    ELSE uniqueFrom(f, getParentPath(filePath), basename(filePath), 1)

\* the paths the bounded model can name: a name carries at most one " (n)"
\* suffix with n <= MaxCopy, and directories sit directly under the root
Representable(f, source, destination) ==
    /\ LET copy == basename(destination).copy
       IN Len(copy) <= 1 /\ \A i \in 1..Len(copy) : copy[i] <= MaxCopy
    /\ \A e \in Rebase(f, source, destination) :
           Len(e.path) <= MaxDepth /\ (e.type = "directory" => Len(e.path) = 1)

(***************************************************************************)
(* The controller (FileManager): its event handlers.  A handler that       *)
(* awaits a file-system call leaves a task behind; the task's completion   *)
(* is a later step, and other events are handled in between.               *)
(***************************************************************************)
RemoveAt(seq, i) == SubSeq(seq, 1, i - 1) \o SubSeq(seq, i + 1, Len(seq))

\* loadCurrentDirectory up to its await: the snapshot it keeps in `state`
loadTask(s) ==
    [kind |-> "load",
     currentPath |-> s.viewport.currentPath,
     terminalSize |-> s.viewport.terminalSize,
     selectedIndex |-> s.selection.selectedIndex]

\* a load that drops the listing of a directory the view has left
loadResolved_Guarded(s, task, items) ==
    IF task.currentPath # s.viewport.currentPath THEN s ELSE setFileItems(s, items)

\* loadCurrentDirectory after its await, the scan having resolved to items
loadResolved(s, task, items) ==
    LET s1 == setFileItems(s, items)
        layout == calculateLayout(task.terminalSize)
        s2 == setLayoutInfo(s1, layout.itemsPerRow, layout.totalRows)
    IN IF task.selectedIndex >= Len(items) THEN clearSelection(s2) ELSE s2

loadRejected_KeepsItems(s) == s

\* loadCurrentDirectory's catch block
loadRejected(s) == setFileItems(s, <<>>)

\* a handler's outcome: the new state and the tasks it leaves suspended
Outcome(s, newTasks) == [state |-> s, tasks |-> newTasks]

\* a handler suspended at `await FileOperations.openWithSystem(path)` or
\* `await FileOperations.openWithVSCode(path)`
launchTask(selectedItem) == [kind |-> "launch", path |-> selectedItem.path]

handleNavigationBack(s) ==
    LET parentPath == getParentPath(s.viewport.currentPath)
    IN IF parentPath # s.viewport.currentPath
       THEN LET s1 == setCurrentPath(s, parentPath) IN Outcome(s1, <<loadTask(s1)>>)
       ELSE Outcome(s, <<>>)

handleFileOpen(s) ==
    LET selectedItem == s.selection.selectedItem
    IN IF selectedItem = Null
       THEN Outcome(s, <<>>)
       ELSE IF selectedItem.type = "directory"
            THEN LET s1 == setCurrentPath(s, selectedItem.path)
                 IN Outcome(s1, <<loadTask(s1)>>)
            ELSE Outcome(s, <<launchTask(selectedItem)>>)

\* a click handler that selects under a visible menu as well
handleMouseClick_SelectsUnderMenu(s, x, y) ==
    LET layout == calculateLayout(s.viewport.terminalSize)
        itemIndex == getItemIndexFromPosition(x, y, layout, Len(s.viewport.items))
        s1 == hideContextMenu(s)
    IN IF itemIndex >= 0
       THEN setSelection(s1, itemIndex, ItemAt(s.viewport.items, itemIndex))
       ELSE clearSelection(s1)

handleMouseClick(s, x, y) ==
    LET layout == calculateLayout(s.viewport.terminalSize)
        itemIndex == getItemIndexFromPosition(x, y, layout, Len(s.viewport.items))
    IN IF s.contextMenu.visible
       THEN hideContextMenu(s)
       ELSE IF itemIndex >= 0
            THEN setSelection(s, itemIndex, ItemAt(s.viewport.items, itemIndex))
            ELSE clearSelection(s)

\* a double-click handler that opens what was selected before
handleMouseDoubleClick_OpensSelection(s, x, y) == handleFileOpen(s)

handleMouseDoubleClick(s, x, y) ==
    LET layout == calculateLayout(s.viewport.terminalSize)
        itemIndex == getItemIndexFromPosition(x, y, layout, Len(s.viewport.items))
    IN IF itemIndex >= 0
       THEN handleFileOpen(setSelection(s, itemIndex, ItemAt(s.viewport.items, itemIndex)))
       ELSE Outcome(s, <<>>)

\* a right-click handler that clears the selection on empty space
handleMouseRightClick_ClearsSelection(s, x, y) ==
    LET layout == calculateLayout(s.viewport.terminalSize)
        itemIndex == getItemIndexFromPosition(x, y, layout, Len(s.viewport.items))
        targetItem == ItemAt(s.viewport.items, itemIndex)
    IN showContextMenu(setSelection(s, itemIndex, targetItem), [x |-> x, y |-> y], targetItem)

handleMouseRightClick(s, x, y) ==
    LET layout == calculateLayout(s.viewport.terminalSize)
        itemIndex == getItemIndexFromPosition(x, y, layout, Len(s.viewport.items))
        targetItem == IF itemIndex >= 0 THEN ItemAt(s.viewport.items, itemIndex) ELSE Null
        s1 == IF itemIndex >= 0 THEN setSelection(s, itemIndex, targetItem) ELSE s
    IN showContextMenu(s1, [x |-> x, y |-> y], targetItem)

\* a copy handler that leaves an occupied clipboard alone
handleFileCopy_KeepsSlot(s) ==
    IF s.selection.selectedItem # Null /\ s.clipboard = Null
    THEN setClipboard(s, s.selection.selectedItem, "copy")
    ELSE s

handleFileCopy(s) ==
    IF s.selection.selectedItem # Null
    THEN setClipboard(s, s.selection.selectedItem, "copy")
    ELSE s

handleFileCut(s) ==
    IF s.selection.selectedItem # Null
    THEN setClipboard(s, s.selection.selectedItem, "cut")
    ELSE s

handleFilePaste_AlwaysCopy(s) ==
    IF s.clipboard = Null \/ s.clipboardOperation = NullOp
    THEN Outcome(s, <<>>)
    ELSE Outcome(s, <<[kind |-> "paste",
                       clipboard |-> s.clipboard,
                       clipboardOperation |-> "copy",
                       currentPath |-> s.viewport.currentPath]>>)

\* handleFilePaste up to its first await
handleFilePaste(s) ==
    IF s.clipboard = Null \/ s.clipboardOperation = NullOp
    THEN Outcome(s, <<>>)
    ELSE Outcome(s, <<[kind |-> "paste",
                       clipboard |-> s.clipboard,
                       clipboardOperation |-> s.clipboardOperation,
                       currentPath |-> s.viewport.currentPath]>>)

pasteSettled_ClearsFirst(s, clipboardOperation, fails) ==
    IF clipboardOperation = "cut" THEN clearClipboard(s) ELSE s

\* handleFilePaste after FileOperations.copy or move settled: a rejection
\* goes to the catch block, which logs; a move that resolved is followed by
\* clearClipboard
pasteSettled(s, clipboardOperation, fails) ==
    IF ~fails /\ clipboardOperation = "cut" THEN clearClipboard(s) ELSE s

\* handleFileDelete up to its await
handleFileDelete(s) ==
    IF s.selection.selectedItem = Null
    THEN Outcome(s, <<>>)
    ELSE Outcome(s, <<[kind |-> "delete", selectedItem |-> s.selection.selectedItem]>>)

\* renderContextMenu: the actions of the menu shown for a target
\* (getFileContextMenuItems and getDirectoryContextMenuItems offer the
\* same actions, getEmptySpaceContextMenuItems paste and refresh)
contextMenuItems(targetItem) ==
    IF targetItem # Null
    THEN {"open", "open-vscode", "copy", "cut", "paste", "delete"}
    ELSE {"paste", "refresh"}

ContextMenuActions == {"open", "open-vscode", "copy", "cut", "paste", "delete", "refresh"}

handleContextMenuAction(s, action) ==
    LET s1 == hideContextMenu(s)
    IN CASE action = "open" -> handleFileOpen(s1)
         [] action = "open-vscode" ->
                IF s1.selection.selectedItem = Null
                THEN Outcome(s1, <<>>)
                ELSE Outcome(s1, <<launchTask(s1.selection.selectedItem)>>)
         [] action = "copy" -> Outcome(handleFileCopy(s1), <<>>)
         [] action = "cut" -> Outcome(handleFileCut(s1), <<>>)
         [] action = "paste" -> handleFilePaste(s1)
         [] action = "delete" -> handleFileDelete(s1)
         [] action = "refresh" -> Outcome(s1, <<loadTask(s1)>>)

\* subscribe(listener): push
subscribe(ls, listener) == Append(ls, listener)

\* the function subscribe returned: indexOf, then splice
unsubscribe(ls, listener) ==
    IF \E i \in 1..Len(ls) : ls[i] = listener
    THEN RemoveAt(ls, CHOOSE i \in 1..Len(ls) :
                          ls[i] = listener /\ \A j \in 1..(i - 1) : ls[j] # listener)
    ELSE ls

(***************************************************************************)
(* The event bus (SimpleEventBus).  handlers maps a topic to its handlers  *)
(* in subscription order; a topic without an entry in the Map has <<>>.    *)
(* A handler is known by its name; the handler "bad" throws when called.   *)
(***************************************************************************)
Topics == {"navigation", "refresh"}

HandlerIds == {"h1", "h2", "bad"}

throws(handler) == handler = "bad"

\* on(event, handler): push
on(handlers, event, handler) == [handlers EXCEPT ![event] = Append(@, handler)]

\* off(event, handler): indexOf, then splice; off(event): delete
off(handlers, event, handler) == [handlers EXCEPT ![event] = unsubscribe(@, handler)]

offAll(handlers, event) == [handlers EXCEPT ![event] = <<>>]

\* clear()
clear(handlers) == [event \in DOMAIN handlers |-> <<>>]

\* an emit without the try/catch: the first throwing handler ends the
\* forEach and its exception reaches the caller
emit_NoCatch(handlers, event) ==
    LET hs == handlers[event]
        bad == {i \in 1..Len(hs) : throws(hs[i])}
        first == CHOOSE i \in bad : \A j \in bad : i <= j
    IN IF bad = {}
       THEN [invoked |-> hs, propagated |-> FALSE]
       ELSE [invoked |-> SubSeq(hs, 1, first), propagated |-> TRUE]

\* emit(event, data): forEach handler, each call in its own try/catch;
\* invoked lists the handlers called, in the order of the calls
emit(handlers, event) == [invoked |-> handlers[event], propagated |-> FALSE]

\* the bus and the history of the last call made on it
Bus(handlers, last, topic, result) ==
    [handlers |-> handlers, last |-> last, topic |-> topic,
     invoked |-> result.invoked, propagated |-> result.propagated]

NoCalls == [invoked |-> <<>>, propagated |-> FALSE]

BusIdle == bus = Bus([event \in Topics |-> <<>>], "constructed", "none", NoCalls)

(***************************************************************************)
(* The pointer decoder (MouseHandler): the click tracking of               *)
(* emitMouseEvent.                                                         *)
(***************************************************************************)
DOUBLE_CLICK_THRESHOLD == 300

\* Date.now() when the process starts, in milliseconds since the epoch
StartTime == 1000

Abs(n) == IF n < 0 THEN -n ELSE n

MouseEvent(x, y, button) == [x |-> x, y |-> y, button |-> button, type |-> "click"]

\* an isDoubleClick that accepts a click exactly the threshold later
isDoubleClick_Inclusive(m, event, t) ==
    /\ t - m.lastClickTime <= DOUBLE_CLICK_THRESHOLD
    /\ Abs(event.x - m.lastClickX) <= 1
    /\ Abs(event.y - m.lastClickY) <= 1
    /\ event.button = "left"

isDoubleClick(m, event, t) ==
    /\ t - m.lastClickTime < DOUBLE_CLICK_THRESHOLD
    /\ Abs(event.x - m.lastClickX) <= 1
    /\ Abs(event.y - m.lastClickY) <= 1
    /\ event.button = "left"

\* a tracking update that records the press of any button
trackClick_AnyButton(m, event, t) ==
    [lastClickTime |-> t, lastClickX |-> event.x, lastClickY |-> event.y]

\* emitMouseEvent's update of the click tracking after a single click
trackClick(m, event, t) ==
    IF event.button = "left"
    THEN [lastClickTime |-> t, lastClickX |-> event.x, lastClickY |-> event.y]
    ELSE m

\* an emitMouseEvent that keeps the tracked click after a double-click
emitMouseEvent_NoReset(m, event, t) ==
    IF isDoubleClick(m, event, t)
    THEN [mouse |-> m, emitted |-> "double-click"]
    ELSE [mouse |-> trackClick(m, event, t),
          emitted |-> IF event.button = "right" THEN "right-click" ELSE "click"]

\* emitMouseEvent at time t: the tracking fields afterwards and the type
\* of the event passed to the handlers
emitMouseEvent(m, event, t) ==
    IF isDoubleClick(m, event, t)
    THEN [mouse |-> [m EXCEPT !.lastClickTime = 0], emitted |-> "double-click"]
    ELSE [mouse |-> trackClick(m, event, t),
          emitted |-> IF event.button = "right" THEN "right-click" ELSE "click"]

MouseIdle ==
    /\ mouse = [lastClickTime |-> 0, lastClickX |-> 0, lastClickY |-> 0]
    /\ now = StartTime
    /\ clicks = <<>>

(***************************************************************************)
(* The controller's lifecycle: start(), stop(), the render loop and the    *)
(* terminal.  `life` holds what they act on:                               *)
(*   cursorVisible, altScreen  the terminal's cursor and screen buffer     *)
(*   keyboard, mouse           the decoders' isListening                   *)
(*   stdinListeners            'data' listeners on process.stdin           *)
(*   shortcuts                 runs of registerCommonShortcuts/Handlers    *)
(*   resizeListeners           'resize' listeners on process.stdout        *)
(*   renderTimer               FileManager.renderTimer is defined          *)
(*   timers                    intervals that are set and not cleared      *)
(*   busOn                     the controller's handlers are on the bus    *)
(***************************************************************************)
\* after new FileManager(): setupEventHandlers has run, nothing else
ConstructedLife ==
    [cursorVisible |-> TRUE, altScreen |-> FALSE,
     keyboard |-> FALSE, mouse |-> FALSE, stdinListeners |-> 0,
     shortcuts |-> 0, resizeListeners |-> 0,
     renderTimer |-> FALSE, timers |-> 0, busOn |-> TRUE]

\* what a step did: frames rendered, store notification rounds run,
\* control sequences written to the terminal
Effects(renders, notifications, writes) ==
    [renders |-> renders, notifications |-> notifications, writes |-> writes]

NoEffects == Effects(0, 0, 0)

\* cursorHide, clearScreen, ESC[?1049h, and one more resize listener
initializeTerminal(l) ==
    [l EXCEPT !.cursorVisible = FALSE, !.altScreen = TRUE, !.resizeListeners = @ + 1]

\* ESC[?1049l, cursorShow, clearScreen
cleanupTerminal(l) == [l EXCEPT !.altScreen = FALSE, !.cursorVisible = TRUE]

\* KeyboardHandler.start / stop; stop removes every 'data' listener
keyboardStart(l) ==
    IF l.keyboard THEN l ELSE [l EXCEPT !.keyboard = TRUE, !.stdinListeners = @ + 1]

keyboardStop(l) ==
    IF ~l.keyboard THEN l ELSE [l EXCEPT !.keyboard = FALSE, !.stdinListeners = 0]

\* MouseHandler.start / stop: four tracking modes switched on / off
mouseStart(l) ==
    IF l.mouse THEN l ELSE [l EXCEPT !.mouse = TRUE, !.stdinListeners = @ + 1]

mouseStop(l) == IF ~l.mouse THEN l ELSE [l EXCEPT !.mouse = FALSE]

mouseWrites(l, listening) == IF l.mouse = listening THEN 0 ELSE 4

\* registerCommonShortcuts and registerCommonHandlers
registerCommon(l) == [l EXCEPT !.shortcuts = @ + 1]

\* startRenderLoop's setInterval; the render() before it is the caller's
startRenderLoop(l) == [l EXCEPT !.renderTimer = TRUE, !.timers = @ + 1]

\* stop()'s clearInterval of the timer the field holds
clearRenderTimer(l) ==
    IF l.renderTimer THEN [l EXCEPT !.renderTimer = FALSE, !.timers = @ - 1] ELSE l

\* start() up to its await; began says that the initial load was issued
start(running, l) ==
    IF running
    THEN [isRunning |-> running, life |-> l, writes |-> 0, began |-> FALSE]
    ELSE [isRunning |-> TRUE,
          life |-> registerCommon(mouseStart(keyboardStart(initializeTerminal(l)))),
          writes |-> 3 + mouseWrites(l, TRUE),
          began |-> TRUE]

\* a stop() that goes on although the controller does not run
stop_Unguarded(running, l) ==
    [isRunning |-> FALSE,
     life |-> [cleanupTerminal(mouseStop(keyboardStop(clearRenderTimer(l))))
                  EXCEPT !.busOn = FALSE],
     writes |-> mouseWrites(l, FALSE) + 3]

\* stop()
stop(running, l) ==
    IF ~running
    THEN [isRunning |-> running, life |-> l, writes |-> 0]
    ELSE [isRunning |-> FALSE,
          life |-> [cleanupTerminal(mouseStop(keyboardStop(clearRenderTimer(l))))
                       EXCEPT !.busOn = FALSE],
          writes |-> mouseWrites(l, FALSE) + 3]

\* a render() without the isRunning guard
render_Unguarded(running) == 1

\* render(): a frame is written only while the controller runs
render(running) == IF running THEN 1 ELSE 0

\* the frames one notification round writes: every listener is a render
renderRound(running, ls) == Len(ls) * render(running)

\* start()'s own load: loadCurrentDirectory's snapshot, start() to resume
startTask(s) == [loadTask(s) EXCEPT !.kind = "start"]

(***************************************************************************)
(* The controller from construction on.                                    *)
(***************************************************************************)
StoreIdle == listeners = <<>> /\ calls = <<>> /\ lastStore = "none"

\* the controller is constructed; main is "embedded" when the exported
\* FileManager is driven by its caller, "launched" when main() drives it
LifeAt(main) == life = ConstructedLife /\ effects = NoEffects /\ proc = main

LifeIdle == LifeAt("embedded")

\* the state after construction, the process having been started in the
\* root of a file system holding `files`
Constructed(files, terminalSize, main) ==
    /\ StoreIdle
    /\ LifeAt(main)
    /\ BusIdle
    /\ MouseIdle
    /\ PureIdle
    /\ state = InitialState(Root, terminalSize)
    /\ fs = files
    /\ tasks = <<>>
    /\ isRunning = FALSE
    /\ lastEvent = "constructed"

\* the process has neither exited nor been killed
Alive == proc \notin {"exited", "killed"}

\* input reaches the controller's handlers: the decoders listen, their
\* common handlers publish on the bus, the controller's handlers are on it
Delivered == Alive /\ life.keyboard /\ life.mouse /\ life.shortcuts > 0 /\ life.busOn

\* an event handler ran to its first await (or to its end), with at most
\* cap handlers suspended afterwards
HandledUpTo(cap, event, outcome) ==
    /\ Delivered
    /\ Len(tasks) + Len(outcome.tasks) <= cap
    /\ state' = outcome.state
    /\ tasks' = tasks \o outcome.tasks
    /\ lastEvent' = event
    /\ UNCHANGED <<fs, isRunning, nonCtlVars>>

Handled(event, outcome) == HandledUpTo(MaxTasks, event, outcome)

\* start() called: up to the await of the initial load
StartCalled(nextProc) ==
    LET r == start(isRunning, life)
    IN /\ r.began => Len(tasks) < MaxTasks /\ life.resizeListeners < MaxStarts
       /\ isRunning' = r.isRunning
       /\ life' = r.life
       /\ tasks' = IF r.began THEN Append(tasks, startTask(state)) ELSE tasks
       /\ effects' = Effects(0, 0, r.writes)
       /\ proc' = nextProc
       /\ lastEvent' = "start"
       /\ UNCHANGED <<state, fs, storeVars, busVars, mouseVars, pureVars>>

\* start() called on the exported FileManager
Start == proc = "embedded" /\ StartCalled(proc)

\* stop() called
StopCalled(nextProc) ==
    LET r == stop(isRunning, life)
    IN /\ isRunning' = r.isRunning
       /\ life' = r.life
       /\ effects' = Effects(0, 0, r.writes)
       /\ proc' = nextProc
       /\ UNCHANGED <<state, fs, tasks, storeVars, busVars, mouseVars, pureVars>>

\* stop() called on the exported FileManager
Stop == proc = "embedded" /\ StopCalled(proc) /\ lastEvent' = "stop"

\* one interval of the render loop fires
TimerTick ==
    /\ Alive
    /\ life.timers > 0
    /\ effects' = Effects(render(isRunning), 0, 0)
    /\ lastEvent' = "timer"
    /\ UNCHANGED <<state, fs, tasks, isRunning, storeVars, life, proc, busVars, mouseVars, pureVars>>

\* the terminal is resized: every resize listener calls setTerminalSize
Resize ==
    \E size \in TerminalSizes :
        /\ Alive
        /\ life.resizeListeners > 0
        /\ state' = setTerminalSize(state, size)
        /\ effects' = Effects(life.resizeListeners * renderRound(isRunning, listeners),
                              life.resizeListeners, 0)
        /\ lastEvent' = "resize"
        /\ UNCHANGED <<fs, tasks, isRunning, storeVars, life, proc, busVars, mouseVars, pureVars>>

Navigation ==
    \E direction \in Directions :
        Handled("move", Outcome(moveSelection(state, direction), <<>>))

NavigationBack == Handled("back", handleNavigationBack(state))

MouseClick ==
    \E p \in ClickPositions :
        Handled("click", Outcome(handleMouseClick(state, p[1], p[2]), <<>>))

MouseDoubleClick ==
    \E p \in ClickPositions :
        Handled("double-click", handleMouseDoubleClick(state, p[1], p[2]))

MouseRightClick ==
    \E p \in ClickPositions :
        Handled("right-click", Outcome(handleMouseRightClick(state, p[1], p[2]), <<>>))

FileOpened == Handled("open", handleFileOpen(state))

FileCopy == Handled("copy", Outcome(handleFileCopy(state), <<>>))

FileCut == Handled("cut", Outcome(handleFileCut(state), <<>>))

FilePaste == Handled("paste", handleFilePaste(state))

FileDelete == Handled("delete", handleFileDelete(state))

ContextMenuAction(actions) ==
    \E action \in actions :
        Handled("menu-action", handleContextMenuAction(state, action))

Refresh == Handled("refresh", Outcome(state, <<loadTask(state)>>))

\* a pending scan settles: loadCurrentDirectory runs to its end; each of
\* its store calls runs one notification round.  After its own load
\* start() resumes: startRenderLoop, then the store subscription; and
\* main(), which awaited start(), registers the signal handlers
LoadCompletes ==
    \E i \in 1..Len(tasks) :
        LET task == tasks[i]
            fails == scanFails(fs, task.currentPath)
            items == scanDirectory(fs, task.currentPath)
            rounds == IF fails THEN 1
                      ELSE IF task.selectedIndex >= Len(items) THEN 3 ELSE 2
            resumes == task.kind = "start"
        IN /\ Alive
           /\ task.kind \in {"load", "start"}
           /\ state' = IF fails THEN loadRejected(state) ELSE loadResolved(state, task, items)
           /\ tasks' = RemoveAt(tasks, i)
           /\ life' = IF resumes THEN startRenderLoop(life) ELSE life
           /\ listeners' = IF resumes THEN subscribe(listeners, "render") ELSE listeners
           /\ effects' = Effects(rounds * renderRound(isRunning, listeners)
                                    + (IF resumes THEN render(isRunning) ELSE 0),
                                 rounds, 0)
           /\ proc' = IF resumes /\ proc = "starting" THEN "serving" ELSE proc
           /\ lastEvent' = IF fails THEN "load-failed" ELSE "loaded"
           /\ UNCHANGED <<fs, isRunning, calls, lastStore, busVars, mouseVars, pureVars>>

\* a pending FileOperations.delete settles: on success the reload begins
DeleteCompletes ==
    \E i \in 1..Len(tasks) :
        /\ Alive
        /\ tasks[i].kind = "delete"
        /\ IF deleteFails(fs, tasks[i].selectedItem.path)
           THEN /\ tasks' = RemoveAt(tasks, i)
                /\ lastEvent' = "delete-failed"
                /\ UNCHANGED fs
           ELSE /\ fs' = deleteEntry(fs, tasks[i].selectedItem.path)
                /\ tasks' = [tasks EXCEPT ![i] = loadTask(state)]
                /\ lastEvent' = "deleted"
        /\ UNCHANGED <<state, isRunning, nonCtlVars>>

\* a pending paste settles: the unique name is resolved and the entry is
\* copied or moved; on success the clipboard of a cut is cleared and the
\* reload begins
PasteCompletes ==
    \E i \in 1..Len(tasks) :
        LET task == tasks[i]
            source == task.clipboard.path
            destinationPath == joinPath(task.currentPath, basename(source))
            finalPath == getUniqueFileName(fs, destinationPath)
            fails == IF task.clipboardOperation = "copy"
                     THEN copyFails(fs, source, finalPath)
                     ELSE moveFails(fs, source, finalPath)
        IN /\ Alive
           /\ task.kind = "paste"
           /\ state' = pasteSettled(state, task.clipboardOperation, fails)
           /\ IF fails
              THEN /\ tasks' = RemoveAt(tasks, i)
                   /\ lastEvent' = "paste-failed"
                   /\ UNCHANGED fs
              ELSE /\ Representable(fs, source, finalPath)
                   /\ fs' = IF task.clipboardOperation = "copy"
                            THEN copyEntry(fs, source, finalPath)
                            ELSE moveEntry(fs, source, finalPath)
                   /\ tasks' = [tasks EXCEPT ![i] = loadTask(state')]
                   /\ lastEvent' = "pasted"
           /\ UNCHANGED <<isRunning, nonCtlVars>>

\* the launcher's child process ends: exit code 0 resolves the promise, any
\* other exit code or a spawn error rejects it, and the handler's catch
\* block logs the error
LaunchCompletes ==
    \E i \in 1..Len(tasks), ok \in BOOLEAN :
        /\ Alive
        /\ tasks[i].kind = "launch"
        /\ tasks' = RemoveAt(tasks, i)
        /\ lastEvent' = IF ok THEN "opened" ELSE "open-failed"
        /\ UNCHANGED <<state, fs, isRunning, nonCtlVars>>

\* Spec: selection, navigation and listing events over the directory /d,
\* which holds /d/a, and the files /a and /b
Init == \E size \in TerminalSizes : Constructed({DirD, FileA, FileB, FileDA}, size, "embedded")

Next ==
    \/ Start
    \/ Navigation
    \/ NavigationBack
    \/ MouseClick
    \/ MouseDoubleClick
    \/ FileOpened
    \/ FileDelete
    \/ Refresh
    \/ LoadCompletes
    \/ DeleteCompletes
    \/ LaunchCompletes

Spec == Init /\ [][Next]_vars

\* C1: the selection has an index exactly when it has an item:
\* selectedIndex = -1 iff selectedItem = null, in every reachable state
C1_IndexIffItem ==
    (state.selection.selectedIndex = -1) <=> (state.selection.selectedItem = Null)

\* C2: whenever something is selected, selectedIndex is an index of
\* viewport.items and the entry at that index is the selected item (same path)
C2_SelectionIsListedItem ==
    state.selection.selectedIndex # -1 =>
        /\ state.selection.selectedIndex >= 0
        /\ state.selection.selectedIndex < Len(state.viewport.items)
        /\ state.selection.selectedItem # Null
        /\ ItemAt(state.viewport.items, state.selection.selectedIndex).path
               = state.selection.selectedItem.path

\* C4: a moveSelection step on a non-empty list leaves selectedIndex inside
\* [0, items.length); on an empty list it leaves the selection untouched
C4_MoveStaysInBounds ==
    [][lastEvent' = "move" =>
          IF Len(state.viewport.items) = 0
          THEN state'.selection = state.selection
          ELSE /\ state'.selection.selectedIndex >= 0
               /\ state'.selection.selectedIndex < Len(state'.viewport.items)]_vars

\* C20: right after a scan resolved and the load installed its list, the
\* selected index is inside the list or the selection is cleared, whatever
\* selection events were handled while the scan was pending
C20_SelectionInBoundsAfterLoad ==
    lastEvent = "loaded" =>
        state.selection.selectedIndex < Len(state.viewport.items)

\* SpecRace: navigation faster than the scans, over the directory /d holding
\* /d/a.  An open or back event is handled while the scan of an earlier one
\* is still pending, up to MaxLoads scans at a time, and the scans settle in
\* any order.
MaxLoads == 2

InitRace == Constructed({DirD, FileDA}, Size(80, 24), "embedded")

OpenDuringLoad == HandledUpTo(MaxLoads, "open", handleFileOpen(state))

BackDuringLoad == HandledUpTo(MaxLoads, "back", handleNavigationBack(state))

NextRace ==
    \/ Start
    \/ MouseClick
    \/ OpenDuringLoad
    \/ BackDuringLoad
    \/ LoadCompletes
    \/ LaunchCompletes

SpecRace == InitRace /\ [][NextRace]_vars

\* C21: a load that completes installs the listing of the directory its
\* scan was started for, whatever viewport.currentPath is by then and
\* whatever other scan is pending (there is no generation guard), and it
\* leaves currentPath as it is
C21_LastCompletionWins ==
    [][lastEvent' = "loaded" =>
          /\ state'.viewport.currentPath = state.viewport.currentPath
          /\ \E i \in 1..Len(tasks) :
                 /\ tasks' = RemoveAt(tasks, i)
                 /\ state'.viewport.items = scanDirectory(fs, tasks[i].currentPath)]_vars

\* the scan of /d, started first, settled last: no load is pending, the
\* view is at / and lists /d/a
C21_Witness ==
    /\ lastEvent = "loaded"
    /\ tasks = <<>>
    /\ state.viewport.currentPath = Root
    /\ state.viewport.items = <<FileDA>>
    /\ scanDirectory(fs, Root) = <<DirD>>

\* SpecLoadFail: the events that lead to a rejected scan, over the directory
\* /d and the file /a.  A deleted directory stays selected while its index
\* is within the reloaded list, so it can still be opened.
InitLoadFail == Constructed({DirD, FileA}, Size(80, 24), "embedded")

NextLoadFail ==
    \/ Start
    \/ MouseClick
    \/ FileOpened
    \/ FileDelete
    \/ Refresh
    \/ LoadCompletes
    \/ DeleteCompletes
    \/ LaunchCompletes

SpecLoadFail == InitLoadFail /\ [][NextLoadFail]_vars

\* C16: when a scan is rejected, the load sets viewport.items to the empty
\* list, the controller stays running with its event sources attached, and
\* the step only removes the settled load (nothing is scheduled again); the
\* list then stays empty until a later load completes
C16_FailedLoadEmptiesList ==
    [][/\ lastEvent' = "load-failed" =>
            /\ state'.viewport.items = <<>>
            /\ state'.viewport.currentPath = state.viewport.currentPath
            /\ isRunning' = isRunning
            /\ Delivered' = Delivered
            /\ \E i \in 1..Len(tasks) : tasks' = RemoveAt(tasks, i)
       /\ (lastEvent = "load-failed" /\ lastEvent' # "loaded") =>
            state'.viewport.items = <<>>]_vars

\* a rejected scan emptied a list that had entries, the controller is still
\* running and nothing is pending
C16_Witness ==
    /\ lastEvent = "load-failed"
    /\ state.viewport.items = <<>>
    /\ state.viewport.currentPath = DirD.path
    /\ state.selection.selectedItem = DirD
    /\ isRunning /\ Delivered
    /\ tasks = <<>>

\* SpecReload: the events of SpecLoadFail with keyboard navigation, so that
\* the selection is moved after a reload replaced or shrank the list
NextReload == NextLoadFail \/ Navigation

SpecReload == InitLoadFail /\ [][NextReload]_vars

\* C24: a moveSelection on a non-empty list leaves as selectedItem the entry
\* the current list holds at the new selectedIndex (`items[newIndex] || null`),
\* so a selected item is an entry of the current list, never one carried
\* over from the list loaded before
C24_MoveSelectsFromCurrentList ==
    [][(lastEvent' = "move" /\ Len(state.viewport.items) > 0) =>
          /\ state'.viewport.items = state.viewport.items
          /\ state'.selection.selectedItem
                 = ItemAt(state'.viewport.items, state'.selection.selectedIndex)
          /\ state'.selection.selectedItem # Null =>
                 \E k \in 1..Len(state'.viewport.items) :
                     state'.viewport.items[k] = state'.selection.selectedItem]_vars

\* /d was deleted while selected and the reload left it selected at index
\* 0 of the list [a]; a move then took the entry a from that list
C24_Witness ==
    /\ lastEvent = "move"
    /\ DirD \notin fs
    /\ tasks = <<>>
    /\ state.viewport.items = <<FileA>>
    /\ state.selection = [selectedIndex |-> 0, selectedItem |-> FileA]

\* SpecPointer: the pointer events and the open, copy and cut events, over
\* the directory /d and the file /a
InitPointer == Constructed({DirD, FileA}, Size(80, 24), "embedded")

\* the handler of a pointer event on the bus ran to its first await (or to
\* its end); clicks keeps the event it was given
PointerHandled(type, p, outcome) ==
    /\ Delivered
    /\ Len(tasks) + Len(outcome.tasks) <= MaxTasks
    /\ state' = outcome.state
    /\ tasks' = tasks \o outcome.tasks
    /\ lastEvent' = type
    /\ clicks' = <<[x |-> p[1], y |-> p[2], type |-> type]>>
    /\ UNCHANGED <<fs, isRunning, storeVars, lifeVars, busVars, mouse, now, pureVars>>

PointerClick ==
    \E p \in ClickPositions :
        PointerHandled("click", p, Outcome(handleMouseClick(state, p[1], p[2]), <<>>))

PointerDoubleClick ==
    \E p \in ClickPositions :
        PointerHandled("double-click", p, handleMouseDoubleClick(state, p[1], p[2]))

PointerRightClick ==
    \E p \in ClickPositions :
        PointerHandled("right-click", p,
                       Outcome(handleMouseRightClick(state, p[1], p[2]), <<>>))

\* the entry index at the cell of the pointer event handled last, in the
\* layout of the terminal size of state s
PointedIndex(s) ==
    getItemIndexFromPosition(clicks'[1].x, clicks'[1].y,
                             calculateLayout(s.viewport.terminalSize),
                             Len(s.viewport.items))

NextPointer ==
    \/ Start
    \/ PointerClick
    \/ PointerDoubleClick
    \/ PointerRightClick
    \/ FileOpened
    \/ FileCopy
    \/ FileCut
    \/ LoadCompletes
    \/ LaunchCompletes

SpecPointer == InitPointer /\ [][NextPointer]_vars

\* C27: a click while the context menu is visible only hides the menu;
\* otherwise the click selects the entry at its cell, (index, items[index]),
\* or clears the selection to (-1, null) when no entry is there; nothing
\* else of the state changes and nothing is started
C27_ClickHidesOrSelects ==
    [][lastEvent' = "click" =>
          /\ tasks' = tasks
          /\ IF state.contextMenu.visible
             THEN state' = [state EXCEPT !.contextMenu.visible = FALSE]
             ELSE LET index == PointedIndex(state)
                  IN state' = [state EXCEPT !.selection =
                                      IF index >= 0
                                      THEN [selectedIndex |-> index,
                                            selectedItem |-> state.viewport.items[index + 1]]
                                      ELSE [selectedIndex |-> -1, selectedItem |-> Null]]]_vars

\* a click hid the menu that a right-click on /d had opened while /a was on
\* the clipboard: /d is still selected and /a still on the clipboard
C27_Witness ==
    /\ lastEvent = "click"
    /\ state.contextMenu = [visible |-> FALSE, position |-> [x |-> 2, y |-> 4],
                            targetItem |-> DirD]
    /\ state.selection = [selectedIndex |-> 0, selectedItem |-> DirD]
    /\ state.clipboard = FileA

\* C28: after a right-click at (x, y) the context menu is visible at
\* (x, y); when an entry is at that cell it is the selection and the menu's
\* target; otherwise the target is null, the menu offers paste and refresh
\* only, and the selection is as before; the list and the clipboard are
\* unchanged
C28_RightClickOpensMenu ==
    [][lastEvent' = "right-click" =>
          /\ tasks' = tasks
          /\ LET index == PointedIndex(state)
                 entry == IF index >= 0 THEN state.viewport.items[index + 1] ELSE Null
             IN     /\ state'.contextMenu = [visible |-> TRUE,
                                             position |-> [x |-> clicks'[1].x,
                                                           y |-> clicks'[1].y],
                                             targetItem |-> entry]
                    /\ state'.selection =
                           IF index >= 0
                           THEN [selectedIndex |-> index, selectedItem |-> entry]
                           ELSE state.selection
                    /\ index < 0 =>
                           contextMenuItems(state'.contextMenu.targetItem)
                               = {"paste", "refresh"}
                    /\ state' = [state EXCEPT !.contextMenu = state'.contextMenu,
                                              !.selection = state'.selection]]_vars

\* a right-click on the border, where no entry is, while /a was selected
C28_Witness ==
    /\ lastEvent = "right-click"
    /\ state.contextMenu = [visible |-> TRUE, position |-> [x |-> 1, y |-> 3],
                            targetItem |-> Null]
    /\ state.selection = [selectedIndex |-> 1, selectedItem |-> FileA]

\* C29: a double-click on an entry selects it and opens it: for a directory
\* currentPath becomes its path and a load of that path is started; for a
\* file the launcher is started with its path and the viewport is as
\* before.  A double-click where no entry is changes nothing, and so does an
\* open event without a selection
C29_DoubleClickSelectsAndOpens ==
    [][/\ lastEvent' = "double-click" =>
                LET index == PointedIndex(state)
                    entry == state.viewport.items[index + 1]
                IN IF index < 0
                   THEN state' = state /\ tasks' = tasks
                   ELSE /\ state'.selection = [selectedIndex |-> index,
                                                selectedItem |-> entry]
                        /\ state'.viewport =
                               IF entry.type = "directory"
                               THEN [state.viewport EXCEPT !.currentPath = entry.path]
                               ELSE state.viewport
                        /\ tasks' = Append(tasks,
                                           IF entry.type = "directory"
                                           THEN [kind |-> "load",
                                                 currentPath |-> entry.path,
                                                 terminalSize |-> state.viewport.terminalSize,
                                                 selectedIndex |-> index]
                                           ELSE [kind |-> "launch", path |-> entry.path])
                        /\ state'.contextMenu = state.contextMenu
                        /\ state'.clipboard = state.clipboard
       /\ (lastEvent' = "open" /\ state.selection.selectedItem = Null) =>
            state' = state /\ tasks' = tasks]_vars

\* a double-click on /d while /a was selected: /d is selected, the view is
\* at /d with the old list, and the load of /d is pending
C29_Witness ==
    /\ lastEvent = "double-click"
    /\ state.selection = [selectedIndex |-> 0, selectedItem |-> DirD]
    /\ state.viewport.currentPath = DirD.path
    /\ state.viewport.items = <<DirD, FileA>>
    /\ Len(tasks) = 1 /\ tasks[1].kind = "load" /\ tasks[1].currentPath = DirD.path

\* C30: a copy (cut) event with a selection puts (selectedItem, "copy")
\* ((selectedItem, "cut")) on the clipboard, whatever was there; without a
\* selection it changes nothing; items, selection and context menu are
\* never changed and nothing is started
C30_CopyCutSetClipboard ==
    [][lastEvent' \in {"copy", "cut"} =>
          /\ tasks' = tasks
          /\ state' = IF state.selection.selectedItem # Null
                      THEN [state EXCEPT !.clipboard = state.selection.selectedItem,
                                         !.clipboardOperation = lastEvent']
                      ELSE state]_vars

\* /d was copied while /a was on the clipboard as cut
C30_Witness ==
    /\ lastEvent = "copy"
    /\ state.clipboard = DirD
    /\ state.clipboardOperation = "copy"
    /\ state.selection.selectedItem = DirD
    /\ state.contextMenu.targetItem = FileA

\* SpecFail: the events whose file-system or launcher call can be rejected,
\* over a directory holding the file /a.  A deleted file stays on the
\* clipboard, and stays selected until the reload completes, so pasting or
\* deleting it again is rejected.
InitFail == Constructed({FileA}, Size(80, 24), "embedded")

NextFail ==
    \/ Start
    \/ MouseClick
    \/ FileOpened
    \/ FileCopy
    \/ FileCut
    \/ FilePaste
    \/ FileDelete
    \/ LoadCompletes
    \/ DeleteCompletes
    \/ PasteCompletes
    \/ LaunchCompletes

SpecFail == InitFail /\ [][NextFail]_vars

\* C17: when the delete, copy or move of a delete or paste event is
\* rejected, or the launcher of an open event fails, the state of the store
\* is the same after the step as before it (the clipboard of a cut included),
\* the step only removes the settled call (no reload is scheduled), and
\* the controller stays running with its event sources attached
C17_FailedOperationKeepsState ==
    [][lastEvent' \in {"delete-failed", "paste-failed", "open-failed"} =>
            /\ state' = state
            /\ isRunning' = isRunning
            /\ Delivered' = Delivered
            /\ \E i \in 1..Len(tasks) : tasks' = RemoveAt(tasks, i)]_vars

\* the move of a cut entry was rejected and the entry is still on the
\* clipboard
C17_Witness ==
    /\ lastEvent = "paste-failed"
    /\ state.clipboard = FileA
    /\ state.clipboardOperation = "cut"
    /\ FileA \notin fs
    /\ isRunning /\ Delivered
    /\ tasks = <<>>

\* SpecClip: the clipboard events, with the selection events that feed
\* them, over a directory holding the file /a
InitClip == Constructed({FileA}, Size(80, 24), "embedded")

NextClip ==
    \/ Start
    \/ MouseClick
    \/ FileCopy
    \/ FileCut
    \/ FilePaste
    \/ FileDelete
    \/ LoadCompletes
    \/ DeleteCompletes
    \/ PasteCompletes

SpecClip == InitClip /\ [][NextClip]_vars

\* C3: the clipboard holds an entry exactly when it holds an operation:
\* clipboard = null iff clipboardOperation = null, after any copy, cut and
\* paste events, whether the paste succeeds or fails
C3_ClipboardIffOperation ==
    (state.clipboard = Null) <=> (state.clipboardOperation = NullOp)

\* a cut entry has been pasted, which cleared the clipboard
C3_Witness ==
    /\ lastEvent = "pasted"
    /\ state.clipboard = Null
    /\ state.clipboardOperation = NullOp

\* C31: a paste event with an empty clipboard does nothing (no task, no
\* file-system change, no load); otherwise it captures the clipboard, the
\* operation and the current path, and when the file-system call resolves
\* the destination is getUniqueFileName(currentPath/basename(clipboard
\* path)): a copy leaves the source in place and keeps the clipboard, a cut
\* moves the source away and clears the clipboard, and in both cases a
\* load of the directory begins
C31_PasteCopiesOrMoves ==
    [][/\ lastEvent' = "paste" /\ state.clipboard = Null
            => state' = state /\ tasks' = tasks /\ fs' = fs
       /\ lastEvent' = "paste" /\ state.clipboard # Null
            => /\ state' = state /\ fs' = fs
               /\ Len(tasks') = Len(tasks) + 1
               /\ LET task == tasks'[Len(tasks')]
                  IN /\ task.kind = "paste"
                     /\ task.clipboard = state.clipboard
                     /\ task.clipboardOperation = state.clipboardOperation
                     /\ task.currentPath = state.viewport.currentPath
       /\ lastEvent' = "pasted"
            => \E i \in 1..Len(tasks) :
                   LET task == tasks[i]
                       source == task.clipboard.path
                       finalPath == getUniqueFileName(
                           fs, joinPath(task.currentPath, basename(source)))
                   IN /\ task.kind = "paste"
                      /\ Exists(fs', finalPath) /\ ~Exists(fs, finalPath)
                      /\ \A e \in fs' \ fs : IsPrefix(finalPath, e.path)
                      /\ tasks'[i].kind = "load"
                      /\ tasks'[i].currentPath = state.viewport.currentPath
                      /\ IF task.clipboardOperation = "copy"
                         THEN /\ fs \subseteq fs'
                              /\ state'.clipboard = state.clipboard
                              /\ state'.clipboardOperation = state.clipboardOperation
                         ELSE /\ fs \ fs' = {e \in fs : IsPrefix(source, e.path)}
                              /\ state'.clipboard = Null
                              /\ state'.clipboardOperation = NullOp]_vars

\* a copied entry has been pasted under the next free name and the
\* clipboard still holds it, so that the next paste event pastes again
C31_Witness ==
    /\ lastEvent = "pasted"
    /\ state.clipboard = FileA
    /\ state.clipboardOperation = "copy"
    /\ FileA \in fs
    /\ Exists(fs, <<Name("a", <<1>>, "")>>)

(***************************************************************************)
(* SpecTarget: a context menu is opened on an entry, arrow keys move the   *)
(* selection, and one of the menu's actions on the entry is dispatched.    *)
(***************************************************************************)
InitTarget == Constructed({FileA, FileB}, Size(80, 24), "embedded")

\* an action of the menu that is open on an entry
MenuActionOnEntry ==
    /\ state.contextMenu.visible
    /\ state.contextMenu.targetItem # Null
    /\ ContextMenuAction({"open", "copy", "cut", "delete"})

NextTarget ==
    \/ Start
    \/ PointerRightClick
    \/ Navigation
    \/ MenuActionOnEntry
    \/ LoadCompletes
    \/ DeleteCompletes
    \/ LaunchCompletes

SpecTarget == InitTarget /\ [][NextTarget]_vars

\* C37: an action open, copy, cut or delete dispatched for a menu that was
\* opened on an entry operates on that entry (contextMenu.targetItem),
\* whatever navigation events came between the right-click and the action:
\* copy and cut put it on the clipboard, open launches it or lists it,
\* delete deletes it
C37_ActionOnTargetItem ==
    [][lastEvent' = "menu-action" =>
          LET targetItem == state.contextMenu.targetItem
              task == tasks'[Len(tasks')]
          IN \/ /\ tasks' = tasks
                /\ state'.clipboard = targetItem
                /\ state'.clipboardOperation \in {"copy", "cut"}
             \/ /\ Len(tasks') = Len(tasks) + 1
                /\ \/ task.kind = "launch" /\ task.path = targetItem.path
                   \/ task.kind = "load" /\ task.currentPath = targetItem.path
                   \/ task.kind = "delete" /\ task.selectedItem = targetItem]_vars

(***************************************************************************)
(* SpecOverlap: the clipboard events over a directory holding the files    *)
(* /a and /b, so that the clipboard can be given another entry while a     *)
(* paste is pending.                                                       *)
(***************************************************************************)
NextOverlap ==
    \/ Start
    \/ MouseClick
    \/ FileCopy
    \/ FileCut
    \/ FilePaste
    \/ LoadCompletes
    \/ PasteCompletes

SpecOverlap == InitTarget /\ [][NextOverlap]_vars

\* C40: the completion of a paste changes the clipboard only if the
\* clipboard still holds the entry that was pasted: what a copy or cut
\* event put there while the move was pending survives the completion
C40_NewerClipboardSurvives ==
    [][lastEvent' \in {"pasted", "paste-failed"} /\ state'.clipboard # state.clipboard
          => \E i \in 1..Len(tasks) :
                 /\ tasks[i].kind = "paste"
                 /\ tasks'[i].kind # "paste"
                 /\ tasks[i].clipboard = state.clipboard]_vars

(***************************************************************************)
(* SpecStore: the store's action methods called in any order, with         *)
(* listeners subscribing and unsubscribing in between.  A listener, when   *)
(* called, reads getState(); `calls` keeps who was called and what it saw. *)
(***************************************************************************)
ListenerIds == 1..MaxListeners

\* notifyListeners: listeners.forEach(listener => listener(this.state))
notifyListeners(ls, current) ==
    [i \in 1..Len(ls) |-> [listener |-> ls[i], seen |-> current]]

\* an updateState that runs the round before it installs the new state
updateState_NotifiesFirst(old, new, ls) == [state |-> new, calls |-> notifyListeners(ls, old)]

\* updateState(updater): this.state = updater(this.state), then the round;
\* old is the state before, new the updater's result; the listeners see
\* what is installed when the round runs
updateState(old, new, ls) == [state |-> new, calls |-> notifyListeners(ls, new)]

CtlIdle == fs = {} /\ tasks = <<>> /\ isRunning = FALSE /\ lastEvent = "constructed"

InitStore ==
    /\ state = InitialState(Root, Size(80, 24))
    /\ listeners = <<>>
    /\ calls = <<>>
    /\ lastStore = "constructed"
    /\ CtlIdle
    /\ LifeIdle
    /\ BusIdle
    /\ MouseIdle
    /\ PureIdle

\* an action method that goes through updateState
Installs(method, new) ==
    LET result == updateState(state, new, listeners)
    IN /\ state' = result.state
       /\ calls' = result.calls
       /\ lastStore' = method
       /\ UNCHANGED <<listeners, nonStoreVars>>

\* the values the callers pass
StoreItems == {<<>>, <<DirD, FileA>>}

StoreSelections == {[index |-> 1, item |-> FileA]}

SetCurrentPath == Installs("setCurrentPath", setCurrentPath(state, DirD.path))

SetFileItems == \E items \in StoreItems : Installs("setFileItems", setFileItems(state, items))

SetTerminalSize == \E size \in TerminalSizes : Installs("setTerminalSize", setTerminalSize(state, size))

SetLayoutInfo ==
    LET layout == calculateLayout(state.viewport.terminalSize)
    IN Installs("setLayoutInfo", setLayoutInfo(state, layout.itemsPerRow, layout.totalRows))

SetSelection ==
    \E sel \in StoreSelections : Installs("setSelection", setSelection(state, sel.index, sel.item))

ClearSelection == Installs("clearSelection", clearSelection(state))

\* moveSelection returns before updateState when the list is empty
MoveSelection ==
    \E direction \in Directions :
        IF Len(state.viewport.items) = 0
        THEN /\ calls' = <<>>
             /\ lastStore' = "moveSelection"
             /\ UNCHANGED <<state, listeners, nonStoreVars>>
        ELSE Installs("moveSelection", moveSelection(state, direction))

ShowContextMenu ==
    Installs("showContextMenu", showContextMenu(state, [x |-> 15, y |-> 4], FileA))

HideContextMenu == Installs("hideContextMenu", hideContextMenu(state))

SetClipboard == Installs("setClipboard", setClipboard(state, FileA, "cut"))

ClearClipboard == Installs("clearClipboard", clearClipboard(state))

Subscribe ==
    \E listener \in ListenerIds :
        /\ Len(listeners) < MaxListeners
        /\ listeners' = subscribe(listeners, listener)
        /\ calls' = <<>>
        /\ lastStore' = "subscribe"
        /\ UNCHANGED <<state, nonStoreVars>>

Unsubscribe ==
    \E listener \in ListenerIds :
        /\ listeners' = unsubscribe(listeners, listener)
        /\ calls' = <<>>
        /\ lastStore' = "unsubscribe"
        /\ UNCHANGED <<state, nonStoreVars>>

NextStore ==
    \/ SetCurrentPath
    \/ SetFileItems
    \/ SetTerminalSize
    \/ SetLayoutInfo
    \/ SetSelection
    \/ ClearSelection
    \/ MoveSelection
    \/ ShowContextMenu
    \/ HideContextMenu
    \/ SetClipboard
    \/ ClearClipboard
    \/ Subscribe
    \/ Unsubscribe

SpecStore == InitStore /\ [][NextStore]_vars

\* the action methods that install a new state
InstallingMethods ==
    {"setCurrentPath", "setFileItems", "setTerminalSize", "setLayoutInfo", "setSelection",
     "clearSelection", "moveSelection", "showContextMenu", "hideContextMenu",
     "setClipboard", "clearClipboard"}

InitLife == \E size \in TerminalSizes : Constructed({FileA}, size, "embedded")

NextLife ==
    \/ Start
    \/ Stop
    \/ LoadCompletes
    \/ TimerTick
    \/ Resize

SpecLife == InitLife /\ [][NextLife]_vars

\* C6: start() on a running controller and stop() on a stopped one change
\* nothing: no field of the controller, the store, the terminal or the
\* decoders changes and nothing is written; hence a second stop() in a row
\* adds nothing to the first
C6_GuardedLifecycle ==
    [][((lastEvent' = "start" /\ isRunning) \/ (lastEvent' = "stop" /\ ~isRunning)) =>
          /\ UNCHANGED <<state, fs, tasks, isRunning, listeners, life>>
          /\ effects' = NoEffects]_vars

\* stop() has been called on a controller that had run and was stopped
C6_Witness ==
    /\ lastEvent = "stop"
    /\ effects = NoEffects
    /\ ~isRunning
    /\ life.resizeListeners > 0
    /\ ~life.busOn

\* C9: while the controller runs, every step renders exactly as many
\* frames as it ran store notification rounds: one render per notification
\* and none without
C9_RenderPerNotification == isRunning => effects.renders = effects.notifications

\* C22: whenever no load is pending and the list is not empty, the cached
\* viewport.itemsPerRow and viewport.totalRows are those of
\* calculateLayout(viewport.terminalSize)
C22_CachedLayoutIsCurrent ==
    (tasks = <<>> /\ state.viewport.items # <<>>) =>
        LET layout == calculateLayout(state.viewport.terminalSize)
        IN /\ state.viewport.itemsPerRow = layout.itemsPerRow
           /\ state.viewport.totalRows = layout.totalRows

\* C36: after start(), stop(), start() and the load of the second start()
\* the controller is operational again: the decoders' events reach the
\* controller's handlers, each event is published once (the decoders'
\* common handlers are registered once), and one render subscription is
\* notified, so that a store notification renders one frame
C36_OperationalAfterRestart ==
    (isRunning /\ life.resizeListeners = 2 /\ tasks = <<>> /\ lastEvent = "loaded") =>
        /\ Delivered
        /\ life.shortcuts = 1
        /\ Len(listeners) = 1

(***************************************************************************)
(* SpecStop: SpecLife with a selection and a delete event, so that stop()  *)
(* is also called while a file operation or the load that follows it is    *)
(* pending.                                                                *)
(***************************************************************************)
NextStop ==
    \/ NextLife
    \/ MouseClick
    \/ FileDelete
    \/ DeleteCompletes

SpecStop == InitLife /\ [][NextStop]_vars

\* C35: while the controller is stopped no frame is written, whatever
\* happens: a load or a file operation that was pending when stop() was
\* called completes and the store notifies, the terminal is resized, a
\* render timer fires; and the terminal keeps the state stop() restored
\* (primary screen, visible cursor)
C35_NoFrameWhileStopped ==
    ~isRunning => effects.renders = 0 /\ ~life.altScreen /\ life.cursorVisible

\* a load that was pending when stop() was called has completed on the
\* stopped controller, and the store notified a render subscription
C35_Witness ==
    /\ ~isRunning
    /\ lastEvent = "loaded"
    /\ effects.notifications > 0
    /\ Len(listeners) > 0
    /\ life.timers > 0

(***************************************************************************)
(* SpecMain: the process.  main() constructs the controller, awaits        *)
(* start() and then registers shutdown for SIGINT and SIGTERM; a signal    *)
(* that finds no handler registered ends the process at once.              *)
(***************************************************************************)
Signals == {"SIGINT", "SIGTERM"}

InitMain == Constructed({DirD, FileA, FileB}, Size(80, 24), "launched")

\* main() up to its await of start()
MainStarts == proc = "launched" /\ StartCalled("starting")

\* a signal arrives: shutdown (stop() awaited, then exit) once main() has
\* registered it, the default disposition before
Signal ==
    \E sig \in Signals :
        /\ proc \in {"starting", "serving"}
        /\ lastEvent' = sig
        /\ IF proc = "serving"
           THEN StopCalled("exited")
           ELSE /\ proc' = "killed"
                /\ UNCHANGED <<state, fs, tasks, isRunning, storeVars, life, effects,
                               busVars, mouseVars, pureVars>>

NextMain ==
    \/ MainStarts
    \/ Signal
    \/ Navigation
    \/ MouseClick
    \/ Refresh
    \/ LoadCompletes
    \/ TimerTick
    \/ Resize

SpecMain == InitMain /\ [][NextMain]_vars

\* C5: whenever the process has ended on a signal, the cursor is visible
\* and the primary screen buffer is active
C5_TerminalRestoredAtExit == ~Alive => (life.cursorVisible /\ ~life.altScreen)

(***************************************************************************)
(* SpecBus: handlers subscribe to and unsubscribe from two topics, and     *)
(* events are emitted.                                                     *)
(***************************************************************************)
InitBus ==
    /\ BusIdle
    /\ StoreIdle
    /\ LifeIdle
    /\ MouseIdle
    /\ PureIdle
    /\ CtlIdle
    /\ state = InitialState(Root, Size(80, 24))

BusStep(handlers, last, topic, result) ==
    /\ bus' = Bus(handlers, last, topic, result)
    /\ UNCHANGED <<ctlVars, storeVars, lifeVars, mouseVars, pureVars>>

BusOn ==
    \E event \in Topics, handler \in HandlerIds :
        /\ Len(bus.handlers[event]) < MaxSubs
        /\ BusStep(on(bus.handlers, event, handler), "on", event, NoCalls)

BusOff ==
    \E event \in Topics, handler \in HandlerIds :
        BusStep(off(bus.handlers, event, handler), "off", event, NoCalls)

BusOffAll == \E event \in Topics : BusStep(offAll(bus.handlers, event), "off", event, NoCalls)

BusClear == BusStep(clear(bus.handlers), "clear", "none", NoCalls)

BusEmit == \E event \in Topics : BusStep(bus.handlers, "emit", event, emit(bus.handlers, event))

NextBus ==
    \/ BusOn
    \/ BusOff
    \/ BusOffAll
    \/ BusClear
    \/ BusEmit

SpecBus == InitBus /\ [][NextBus]_vars

InitMouse ==
    /\ MouseIdle
    /\ PureIdle
    /\ BusIdle
    /\ StoreIdle
    /\ LifeIdle
    /\ CtlIdle
    /\ state = InitialState(Root, Size(80, 24))

\* the cells pressed, the buttons, and the time since the previous press
Cells == {<<5, 5>>, <<5, 6>>, <<7, 5>>}

Buttons == {"left", "middle", "right"}

Delays == {100, 300, 500}

MouseInput ==
    \E cell \in Cells, button \in Buttons, delay \in Delays :
        LET event == MouseEvent(cell[1], cell[2], button)
            result == emitMouseEvent(mouse, event, now + delay)
        IN /\ Len(clicks) < MaxClicks
           /\ now' = now + delay
           /\ mouse' = result.mouse
           /\ clicks' = Append(clicks, [x |-> event.x, y |-> event.y, button |-> button,
                                        time |-> now + delay, emitted |-> result.emitted])
           /\ UNCHANGED <<ctlVars, storeVars, lifeVars, busVars, pureVars>>

NextMouse == MouseInput

SpecMouse == InitMouse /\ [][NextMouse]_vars

\* C10: a left click is emitted as a double-click exactly when the left
\* click before it was emitted as a click (so it is the tracked one), came
\* less than 300 ms earlier and lies at most one cell away in x and in y;
\* otherwise it is emitted as a click
C10_DoubleClickRule ==
    \A i \in 1..Len(clicks) :
        LET lefts == {j \in 1..(i - 1) : clicks[j].button = "left"}
            paired == \E j \in lefts :
                         /\ \A k \in lefts : k <= j
                         /\ clicks[j].emitted = "click"
                         /\ clicks[i].time - clicks[j].time < 300
                         /\ Abs(clicks[i].x - clicks[j].x) <= 1
                         /\ Abs(clicks[i].y - clicks[j].y) <= 1
        IN clicks[i].button = "left" =>
               clicks[i].emitted = (IF paired THEN "double-click" ELSE "click")

\* left clicks at (5,5) and (5,6), 100 ms apart: a click, then a double-click
C10_Witness ==
    /\ Len(clicks) = 2
    /\ clicks[1] = [x |-> 5, y |-> 5, button |-> "left",
                    time |-> clicks[1].time, emitted |-> "click"]
    /\ clicks[2] = [x |-> 5, y |-> 6, button |-> "left",
                    time |-> clicks[1].time + 100, emitted |-> "double-click"]

\* C25: a double-click resets the tracking (lastClickTime = 0), so the left
\* click that follows a double-click is emitted as a click, however soon
\* and wherever it comes: never a second double-click
C25_ClickAfterDoubleClick ==
    /\ (clicks # <<>> /\ clicks[Len(clicks)].emitted = "double-click") =>
           mouse.lastClickTime = 0
    /\ \A i \in 2..Len(clicks) :
           (clicks[i - 1].emitted = "double-click" /\ clicks[i].button = "left") =>
               clicks[i].emitted = "click"

\* three left clicks at (5,5), 100 ms apart: click, double-click, click
C25_Witness ==
    /\ Len(clicks) = 3
    /\ \A i \in 1..3 : clicks[i].button = "left" /\ clicks[i].x = 5 /\ clicks[i].y = 5
    /\ clicks[3].time - clicks[2].time = 100
    /\ clicks[2].time - clicks[1].time = 100
    /\ clicks[1].emitted = "click"
    /\ clicks[2].emitted = "double-click"
    /\ clicks[3].emitted = "click"

\* C26: a right click is emitted as a right-click and a middle click as a
\* click, never as a double-click, and neither changes the tracked time and
\* coordinates of the last left click
C26_OtherButtonsUntracked ==
    [][LET c == clicks'[Len(clicks')]
       IN c.button # "left" =>
              /\ c.emitted = (IF c.button = "right" THEN "right-click" ELSE "click")
              /\ mouse' = mouse]_vars

\* a right click at the cell of a left click 100 ms earlier was emitted as a
\* right-click and the left click is still the tracked one
C26_Witness ==
    /\ Len(clicks) = 2
    /\ clicks[1].button = "left" /\ clicks[1].emitted = "click"
    /\ clicks[2].button = "right" /\ clicks[2].emitted = "right-click"
    /\ clicks[2].x = clicks[1].x /\ clicks[2].y = clicks[1].y
    /\ clicks[2].time - clicks[1].time = 100
    /\ mouse = [lastClickTime |-> clicks[1].time,
                lastClickX |-> clicks[1].x, lastClickY |-> clicks[1].y]

(***************************************************************************)
(* SpecLayout: the layout engine.  A layout is computed for a terminal     *)
(* size; one item position or one hit test is then computed in it.         *)
(***************************************************************************)
\* the other groups at their initial value
OthersIdle ==
    /\ CtlIdle
    /\ StoreIdle
    /\ LifeIdle
    /\ BusIdle
    /\ MouseIdle
    /\ state = InitialState(Root, Size(80, 24))

othersVars == <<ctlVars, storeVars, lifeVars, busVars, mouseVars>>

InitLayout == PureIdle /\ OthersIdle

\* every terminal up to MaxWidth x MaxHeight, and the sizes of the other
\* specifications
LayoutSizes ==
    {Size(w, h) : w \in 1..MaxWidth, h \in 1..MaxHeight} \cup TerminalSizes

CalculateLayout ==
    \E size \in LayoutSizes :
        /\ probe.op = "none"
        /\ probe' = [op |-> "calculateLayout", terminalSize |-> size,
                     layout |-> calculateLayout(size)]
        /\ UNCHANGED othersVars

\* the position of an item of the grid, and the hit test at that position
GetItemPosition ==
    /\ probe.op = "calculateLayout"
    /\ \E index \in 0..(probe.layout.itemsPerRow * probe.layout.totalRows - 1),
          more \in 1..2 :
           LET position == getItemPosition(index, probe.layout)
           IN /\ probe' = [op |-> "getItemPosition", layout |-> probe.layout,
                           index |-> index, totalItems |-> index + more,
                           position |-> position,
                           back |-> getItemIndexFromPosition(position.x, position.y,
                                                             probe.layout, index + more)]
              /\ UNCHANGED othersVars

GetItemIndexFromPosition ==
    /\ probe.op = "calculateLayout"
    /\ \E x \in (-1)..MaxWidth, y \in (-1)..MaxHeight, totalItems \in 0..MaxItems :
           /\ probe' = [op |-> "getItemIndexFromPosition", layout |-> probe.layout,
                        x |-> x, y |-> y, totalItems |-> totalItems,
                        index |-> getItemIndexFromPosition(x, y, probe.layout, totalItems)]
           /\ UNCHANGED othersVars

NextLayout ==
    \/ CalculateLayout
    \/ GetItemPosition
    \/ GetItemIndexFromPosition

SpecLayout == InitLayout /\ [][NextLayout]_vars

\* C11: for every terminal of at least 1x1, calculateLayout returns
\* itemsPerRow = max(1, floor((width - 4) / 13)) and
\* totalRows = max(1, floor((height - 7) / 5)), both at least 1
C11_LayoutAtLeastOne ==
    probe.op = "calculateLayout" =>
        LET width == probe.terminalSize.width
            height == probe.terminalSize.height
        IN /\ probe.layout.itemsPerRow >= 1
           /\ probe.layout.totalRows >= 1
           /\ \E k \in (-1)..width :
                  /\ 13 * k <= width - 4
                  /\ width - 4 < 13 * (k + 1)
                  /\ probe.layout.itemsPerRow = (IF k > 1 THEN k ELSE 1)
           /\ \E k \in (-2)..height :
                  /\ 5 * k <= height - 7
                  /\ height - 7 < 5 * (k + 1)
                  /\ probe.layout.totalRows = (IF k > 1 THEN k ELSE 1)

\* the layout of a 1x1 terminal, too small for one cell: one column, one row
C11_Witness ==
    /\ probe.op = "calculateLayout"
    /\ probe.terminalSize = Size(1, 1)
    /\ probe.layout.itemsPerRow = 1
    /\ probe.layout.totalRows = 1

\* C12: the hit test at the position of an item of the grid returns that
\* item's index, whenever the list has more items than the index
C12_PositionRoundTrip ==
    probe.op = "getItemPosition" =>
        (probe.totalItems > probe.index => probe.back = probe.index)

\* an item in the second row and second column found again
C12_Witness ==
    /\ probe.op = "getItemPosition"
    /\ probe.position.row > 0
    /\ probe.position.col > 0
    /\ probe.back = probe.index

\* C13: the hit test returns -1 above the content start row and left of
\* column 2, in a column that is not of the grid, and at a linear index
\* that is not of the list; any other result is an index of the list, so
\* with no items the result is -1 everywhere
C13_HitTestMisses ==
    probe.op = "getItemIndexFromPosition" =>
        LET inside == probe.y >= probe.layout.startY /\ probe.x >= 2
            col == (probe.x - 2) \div 13
            row == (probe.y - probe.layout.startY) \div 5
        IN /\ ~inside => probe.index = -1
           /\ (inside /\ col >= probe.layout.itemsPerRow) => probe.index = -1
           /\ (inside /\ row * probe.layout.itemsPerRow + col >= probe.totalItems) =>
                  probe.index = -1
           /\ probe.index # -1 => (probe.index >= 0 /\ probe.index < probe.totalItems)
           /\ probe.totalItems = 0 => probe.index = -1

\* a cell of the content area right of the last column, over a list that
\* has an item at the linear index of that cell
C13_Witness ==
    /\ probe.op = "getItemIndexFromPosition"
    /\ probe.y >= probe.layout.startY
    /\ (probe.x - 2) \div 13 >= probe.layout.itemsPerRow
    /\ (probe.x - 2) \div 13 < probe.totalItems
    /\ probe.index = -1

(***************************************************************************)
(* SpecNames: FileOperations.getUniqueFileName on the directories a paste  *)
(* can meet.  The directory holds any subset of the names below; the       *)
(* function is called once, with any of them as the wanted path.           *)
(***************************************************************************)
MaxCounter == 3

ReportTxt(copy) == Entry(<<Name("report", copy, ".txt")>>, "file")

Notes(copy) == Entry(<<Name("notes", copy, "")>>, "file")

NamedFiles ==
    {ReportTxt(<<>>), ReportTxt(<<1, 1>>), Notes(<<>>), Notes(<<1>>),
     Entry(<<Name("d", <<>>, ""), Name("report", <<>>, ".txt")>>, "file")}
        \cup {ReportTxt(<<n>>) : n \in 1..MaxCounter}

InitNames == PureIdle /\ OthersIdle

GetUniqueFileName ==
    /\ probe.op = "none"
    /\ \E f \in SUBSET NamedFiles, wanted \in NamedFiles :
           probe' = [op |-> "getUniqueFileName", existing |-> f,
                     filePath |-> wanted.path,
                     result |-> getUniqueFileName(f, wanted.path)]
    /\ UNCHANGED othersVars

NextNames == GetUniqueFileName

SpecNames == InitNames /\ [][NextNames]_vars

\* C14: getUniqueFileName returns the path itself when nothing exists there;
\* otherwise it returns, in the same directory, the name with " (n)" put
\* between name and extension for the smallest n >= 1 that does not exist,
\* and n is at most one more than the number of existing entries
C14_SmallestFreeSuffix ==
    probe.op = "getUniqueFileName" =>
        LET f == probe.existing
            filePath == probe.filePath
            base == basename(filePath)
            Suffixed(n) == joinPath(getParentPath(filePath),
                                    Name(base.stem, Append(base.copy, n), base.ext))
        IN IF ~Exists(f, filePath)
           THEN probe.result = filePath
           ELSE \E n \in 1..(Cardinality(f) + 1) :
                    /\ probe.result = Suffixed(n)
                    /\ ~Exists(f, probe.result)
                    /\ \A m \in 1..(n - 1) : Exists(f, Suffixed(m))

C14_Witness ==
    /\ probe.op = "getUniqueFileName"
    /\ {ReportTxt(<<>>), ReportTxt(<<1>>)} \subseteq probe.existing
    /\ ReportTxt(<<2>>) \notin probe.existing
    /\ probe.filePath = ReportTxt(<<>>).path
    /\ probe.result = ReportTxt(<<2>>).path

(***************************************************************************)
(* SpecMenu: createContextMenu.  A menu item is given by the lengths of    *)
(* its label and of its shortcut, which is all the bounds depend on.  The  *)
(* menu is requested once, at any cell from one before the first column    *)
(* and row to one past the last, on a terminal that may or may not be      *)
(* large enough for it.                                                    *)
(***************************************************************************)
MaxMenuItems == 2

\* the bounds of createContextMenu, with the position left as requested
createContextMenu_NoShift(items, position, terminalWidth, terminalHeight) ==
    LET lengths == {items[i].label + items[i].shortcut : i \in 1..Len(items)}
        widest == IF items = <<>> THEN 0
                  ELSE CHOOSE n \in lengths : \A m \in lengths : m <= n
    IN [x |-> Max(0, position.x), y |-> Max(0, position.y),
        width |-> Max(20, widest + 6), height |-> Len(items) + 2]

\* the bounds of createContextMenu; Math.max over no item is -Infinity, which
\* leaves the minimum width of 20
createContextMenu(items, position, terminalWidth, terminalHeight) ==
    LET labels == {items[i].label : i \in 1..Len(items)}
        shortcuts == {items[i].shortcut : i \in 1..Len(items)}
        Greatest(S) == CHOOSE n \in S : \A m \in S : m <= n
        menuWidth == IF items = <<>> THEN 20
                     ELSE Max(20, Greatest(labels) + Greatest(shortcuts) + 6)
        menuHeight == Len(items) + 2
        x == IF position.x + menuWidth > terminalWidth
             THEN terminalWidth - menuWidth ELSE position.x
        y == IF position.y + menuHeight > terminalHeight
             THEN terminalHeight - menuHeight ELSE position.y
    IN [x |-> Max(0, x), y |-> Max(0, y), width |-> menuWidth, height |-> menuHeight]

InitMenu == PureIdle /\ OthersIdle

CreateContextMenu ==
    /\ probe.op = "none"
    /\ \E terminalSize \in TerminalSizes \cup {Size(28, 4), Size(20, 3)},
          n \in 0..MaxMenuItems :
         \E items \in [1..n -> [label : {4, 16}, shortcut : {0, 6}]],
            x \in -1..terminalSize.width, y \in -1..terminalSize.height :
             probe' = [op |-> "createContextMenu", items |-> items,
                       position |-> [x |-> x, y |-> y],
                       terminalSize |-> terminalSize,
                       bounds |-> createContextMenu(items, [x |-> x, y |-> y],
                                                    terminalSize.width,
                                                    terminalSize.height)]
    /\ UNCHANGED othersVars

NextMenu == CreateContextMenu

SpecMenu == InitMenu /\ [][NextMenu]_vars

\* C15: when the menu is no wider and no higher than the terminal, the box
\* createContextMenu returns lies inside the terminal, wherever the menu was
\* requested, and it is at least 20 columns wide
C15_MenuOnScreen ==
    probe.op = "createContextMenu" =>
        LET b == probe.bounds
        IN /\ b.width >= 20
           /\ (b.width <= probe.terminalSize.width
                   /\ b.height <= probe.terminalSize.height)
                => /\ 0 <= b.x
                   /\ 0 <= b.y
                   /\ b.x + b.width <= probe.terminalSize.width
                   /\ b.y + b.height <= probe.terminalSize.height

C15_Witness ==
    /\ probe.op = "createContextMenu"
    /\ probe.terminalSize = Size(80, 24)
    /\ probe.position = [x |-> 78, y |-> 23]
    /\ Len(probe.items) = MaxMenuItems
    /\ probe.bounds.x + probe.bounds.width = 80
    /\ probe.bounds.y + probe.bounds.height = 24

(***************************************************************************)
(* SpecHeap: the store's state as JavaScript objects.  heap[a] is the      *)
(* object at address a: a root object holds the addresses of its viewport, *)
(* selection and contextMenu objects and the two clipboard fields; root is *)
(* this.state.  getState() allocates a copy of the root object, which      *)
(* shares the three sub-objects.  An action method allocates what its      *)
(* updater's object literals allocate.  previous is this.state before the  *)
(* last method, before its value then; snapshot is the object getState()   *)
(* returned (0: not called yet), saved its value then.                     *)
(***************************************************************************)
MaxUpdates == 3

\* the value of the AppState whose root object is at address a
Deref(heap, a) ==
    [viewport |-> heap[heap[a].viewport],
     selection |-> heap[heap[a].selection],
     contextMenu |-> heap[heap[a].contextMenu],
     clipboard |-> heap[a].clipboard,
     clipboardOperation |-> heap[a].clipboardOperation]

\* an updater that assigns to the fields of the objects it was given
storeUpdate_InPlace(heap, root, target, new) ==
    CASE target = "unchanged" -> [heap |-> heap, root |-> root]
      [] target = "root" ->
            [heap |-> [heap EXCEPT ![root].clipboard = new.clipboard,
                                   ![root].clipboardOperation = new.clipboardOperation],
             root |-> root]
      [] OTHER -> [heap |-> [heap EXCEPT ![heap[root][target]] = new[target]],
                   root |-> root]

\* this.state = updater(this.state) for the updaters of the action methods:
\* `{...state, <target>: {...}}` allocates the target's object and a root
\* object that holds its address and the addresses and values copied from
\* the old root; setClipboard's `{...state, clipboard, clipboardOperation}`
\* allocates a root object only; new is the value the updater computes
storeUpdate(heap, root, target, new) ==
    CASE target = "unchanged" -> [heap |-> heap, root |-> root]
      [] target = "root" ->
            [heap |-> Append(heap, [heap[root] EXCEPT
                                       !.clipboard = new.clipboard,
                                       !.clipboardOperation = new.clipboardOperation]),
             root |-> Len(heap) + 1]
      [] OTHER -> [heap |-> heap \o <<new[target],
                                      [heap[root] EXCEPT ![target] = Len(heap) + 1]>>,
                   root |-> Len(heap) + 2]

\* the calls of the action methods on the state s: the method, the sub-tree
\* its updater rebuilds and the state it computes
StoreCalls(s) ==
    LET Call(method, target, new) == [method |-> method, target |-> target, new |-> new]
        layout == calculateLayout(s.viewport.terminalSize)
    IN {Call("setCurrentPath", "viewport", setCurrentPath(s, DirD.path)),
        Call("setLayoutInfo", "viewport",
             setLayoutInfo(s, layout.itemsPerRow, layout.totalRows)),
        Call("clearSelection", "selection", clearSelection(s)),
        Call("showContextMenu", "contextMenu",
             showContextMenu(s, [x |-> 15, y |-> 4], FileA)),
        Call("hideContextMenu", "contextMenu", hideContextMenu(s)),
        Call("setClipboard", "root", setClipboard(s, FileA, "cut")),
        Call("clearClipboard", "root", clearClipboard(s))}
       \cup {Call("setFileItems", "viewport", setFileItems(s, items)) : items \in StoreItems}
       \cup {Call("setTerminalSize", "viewport", setTerminalSize(s, size)) :
                 size \in TerminalSizes}
       \cup {Call("setSelection", "selection", setSelection(s, sel.index, sel.item)) :
                 sel \in StoreSelections}
       \cup {Call("moveSelection",
                  IF Len(s.viewport.items) = 0 THEN "unchanged" ELSE "selection",
                  moveSelection(s, direction)) : direction \in Directions}

\* the constructor's object literal
InitHeap ==
    LET s == InitialState(Root, Size(80, 24))
    IN /\ probe = [op |-> "store",
                   heap |-> <<s.viewport, s.selection, s.contextMenu,
                              [viewport |-> 1, selection |-> 2, contextMenu |-> 3,
                               clipboard |-> s.clipboard,
                               clipboardOperation |-> s.clipboardOperation]>>,
                   root |-> 4, previous |-> 4, before |-> s,
                   snapshot |-> 0, saved |-> s,
                   method |-> "constructed", target |-> "unchanged", updates |-> 0]
       /\ OthersIdle

\* getState(): return { ...this.state }
GetState ==
    /\ probe.op = "store"
    /\ probe.snapshot = 0
    /\ probe' = [probe EXCEPT !.heap = Append(probe.heap, probe.heap[probe.root]),
                              !.snapshot = Len(probe.heap) + 1,
                              !.saved = Deref(probe.heap, probe.root),
                              !.method = "getState"]
    /\ UNCHANGED othersVars

StoreAction ==
    /\ probe.op = "store"
    /\ probe.updates < MaxUpdates
    /\ \E call \in StoreCalls(Deref(probe.heap, probe.root)) :
           LET result == storeUpdate(probe.heap, probe.root, call.target, call.new)
           IN probe' = [probe EXCEPT !.heap = result.heap,
                                     !.root = result.root,
                                     !.previous = probe.root,
                                     !.before = Deref(probe.heap, probe.root),
                                     !.method = call.method,
                                     !.target = call.target,
                                     !.updates = probe.updates + 1]
    /\ UNCHANGED othersVars

NextHeap == GetState \/ StoreAction

SpecHeap == InitHeap /\ [][NextHeap]_vars

\* C18: an action method leaves the objects of the previous state as they
\* were: the state it replaced and the snapshot getState() returned earlier
\* (with its viewport, selection and contextMenu objects) still have the
\* values they had; and the new state has, in every sub-tree the method does
\* not rebuild, the values of the state it replaced (setSelection keeps
\* viewport, contextMenu and the clipboard; hideContextMenu keeps position
\* and targetItem)
C18_PreviousStateUntouched ==
    (probe.op = "store" /\ probe.method \in InstallingMethods) =>
        LET current == Deref(probe.heap, probe.root)
            Rebuilt(field) ==
                \/ field = probe.target
                \/ probe.target = "root" /\ field \in {"clipboard", "clipboardOperation"}
        IN /\ Deref(probe.heap, probe.previous) = probe.before
           /\ probe.snapshot # 0 => Deref(probe.heap, probe.snapshot) = probe.saved
           /\ \A field \in DOMAIN current :
                  ~Rebuilt(field) => current[field] = probe.before[field]
           /\ probe.method = "hideContextMenu" =>
                  /\ ~current.contextMenu.visible
                  /\ current.contextMenu.position = probe.before.contextMenu.position
                  /\ current.contextMenu.targetItem = probe.before.contextMenu.targetItem

\* a snapshot taken while the menu was shown still shows it, with its
\* target, after hideContextMenu
C18_Witness ==
    /\ probe.op = "store"
    /\ probe.method = "hideContextMenu"
    /\ probe.snapshot # 0
    /\ Deref(probe.heap, probe.snapshot).contextMenu.visible
    /\ ~Deref(probe.heap, probe.root).contextMenu.visible
    /\ Deref(probe.heap, probe.root).contextMenu.targetItem = FileA

(***************************************************************************)
(* SpecKeys: KeyboardHandler.parseKey on one chunk of input.  A chunk is   *)
(* the sequence of its character codes.  A key name is the text the source *)
(* writes followed by the characters it takes from the chunk.              *)
(***************************************************************************)
MaxChunk == 4

\* the string `${text}${chars}`
Key(text, chars) == [text |-> text, chars |-> chars]

\* the characters of `${code}`
RECURSIVE Decimal(_)
Decimal(code) ==
    IF code < 10 THEN <<48 + code>> ELSE Append(Decimal(code \div 10), 48 + (code % 10))

parseEscapeSequence(sequence) ==
    IF Len(sequence) < 3
    THEN Key("escape", <<>>)
    ELSE IF sequence[1] = 27 /\ sequence[2] = 91
         THEN LET command == SubSeq(sequence, 3, Len(sequence))
                  \* /^\d+~/: digits, then "~", then anything
                  matches == \E k \in 1..(Len(command) - 1) :
                                 /\ \A i \in 1..k : command[i] \in 48..57
                                 /\ command[k + 1] = 126
              IN CASE command = <<65>> -> Key("up", <<>>)
                   [] command = <<66>> -> Key("down", <<>>)
                   [] command = <<67>> -> Key("right", <<>>)
                   [] command = <<68>> -> Key("left", <<>>)
                   [] command = <<72>> -> Key("home", <<>>)
                   [] command = <<70>> -> Key("end", <<>>)
                   [] command = <<50, 126>> -> Key("insert", <<>>)
                   [] command = <<51, 126>> -> Key("delete", <<>>)
                   [] command = <<53, 126>> -> Key("pageup", <<>>)
                   [] command = <<54, 126>> -> Key("pagedown", <<>>)
                   [] OTHER -> IF matches
                               THEN Key("f", SubSeq(command, 1, Len(command) - 1))
                               ELSE Key("ansi:", command)
         ELSE Key("escape:", SubSeq(sequence, 2, Len(sequence)))

parseKey(chunk) ==
    LET code == chunk[1]
        KeyEvent(key, ctrl) == [key |-> key, ctrl |-> ctrl, alt |-> FALSE, shift |-> FALSE]
    IN CASE code = 3 -> KeyEvent(Key("ctrl+", <<99>>), TRUE)
         [] code = 27 -> KeyEvent(IF Len(chunk) = 1 THEN Key("escape", <<>>)
                                  ELSE parseEscapeSequence(chunk), FALSE)
         [] code = 13 -> KeyEvent(Key("enter", <<>>), FALSE)
         [] code = 8 \/ code = 127 -> KeyEvent(Key("backspace", <<>>), FALSE)
         [] code = 9 -> KeyEvent(Key("tab", <<>>), FALSE)
         [] code = 32 -> KeyEvent(Key("space", <<>>), FALSE)
         [] code \in (1..26) \ {3, 8, 9, 13} -> KeyEvent(Key("ctrl+", <<code + 96>>), TRUE)
         [] code \in 33..126 -> KeyEvent(Key("", chunk), FALSE)
         [] OTHER -> KeyEvent(Key("unknown:", Decimal(code)), FALSE)

InitKeys == PureIdle /\ OthersIdle

\* one chunk read from stdin: a single character of any code up to 128; a
\* printable character followed by another one; or ESC followed by up to
\* MaxChunk - 1 of the characters "[", "O", "a", "~", digits and the final
\* letters of the cursor keys
ParseKey ==
    /\ probe.op = "none"
    /\ \E chunk \in {<<code>> : code \in 0..128}
                     \cup {<<code, 97>> : code \in {8, 32, 97, 126, 128}}
                     \cup {<<27>> \o rest :
                              rest \in UNION {[1..n -> {49, 50, 51, 53, 54, 65, 66, 67, 68,
                                                       70, 72, 79, 91, 97, 126}] :
                                                 n \in 1..(MaxChunk - 1)}} :
             probe' = [op |-> "parseKey", chunk |-> chunk, event |-> parseKey(chunk)]
    /\ UNCHANGED othersVars

NextKeys == ParseKey

SpecKeys == InitKeys /\ [][NextKeys]_vars

\* C19: parseKey follows the decode table.  By the first character: 0x03 is
\* ctrl+c with ctrl set; ESC alone is escape; 0x0d enter; 0x09 tab; 0x20
\* space; 0x08 and 0x7f backspace; any other of 0x01..0x1a is "ctrl+" and
\* the character of code + 96, with ctrl set; 0x21..0x7e is that character;
\* ESC [ followed by A, B, C, D, H, F, 2~, 3~, 5~, 6~ is up, down, right,
\* left, home, end, insert, delete, pageup, pagedown; ESC [ digits ~ is "f"
\* and the digits; ESC [ with any other body is "ansi:" and the body; any
\* other escape sequence is "escape:" and what follows ESC; any other first
\* character is "unknown:" and its code
C19_DecodeTable ==
    probe.op = "parseKey" =>
        LET chunk == probe.chunk
            code == chunk[1]
            body == SubSeq(chunk, 3, Len(chunk))
            named == [c \in {<<65>>, <<66>>, <<67>>, <<68>>, <<72>>, <<70>>,
                             <<50, 126>>, <<51, 126>>, <<53, 126>>, <<54, 126>>} |->
                        CASE c = <<65>> -> "up" [] c = <<66>> -> "down"
                          [] c = <<67>> -> "right" [] c = <<68>> -> "left"
                          [] c = <<72>> -> "home" [] c = <<70>> -> "end"
                          [] c = <<50, 126>> -> "insert" [] c = <<51, 126>> -> "delete"
                          [] c = <<53, 126>> -> "pageup" [] c = <<54, 126>> -> "pagedown"]
            digits == SubSeq(body, 1, Len(body) - 1)
            key == CASE code = 3 -> Key("ctrl+", <<99>>)
                     [] code = 27 /\ Len(chunk) = 1 -> Key("escape", <<>>)
                     [] code = 27 /\ Len(chunk) > 1 /\ chunk[2] = 91 ->
                            IF body \in DOMAIN named
                            THEN Key(named[body], <<>>)
                            ELSE IF /\ Len(body) >= 2
                                    /\ body[Len(body)] = 126
                                    /\ \A i \in 1..Len(digits) : digits[i] \in 48..57
                                 THEN Key("f", digits)
                                 ELSE Key("ansi:", body)
                     [] code = 27 /\ Len(chunk) > 1 /\ chunk[2] # 91 ->
                            Key("escape:", SubSeq(chunk, 2, Len(chunk)))
                     [] code = 13 -> Key("enter", <<>>)
                     [] code = 9 -> Key("tab", <<>>)
                     [] code = 32 -> Key("space", <<>>)
                     [] code \in {8, 127} -> Key("backspace", <<>>)
                     [] code \in (1..26) \ {3, 8, 9, 13} -> Key("ctrl+", <<code + 96>>)
                     [] code \in 33..126 -> Key("", <<code>>)
                     [] OTHER -> Key("unknown:", Decimal(code))
        IN /\ probe.event.key = key
           /\ probe.event.ctrl = (code \in (1..26) \ {8, 9, 13})
           /\ ~probe.event.alt /\ ~probe.event.shift

(***************************************************************************)
(* SpecMove: StateManager.moveSelection on a store that holds a list of    *)
(* 1..MaxItems entries, a selected index inside the list and any cached    *)
(* row width from 0 to MaxItems.                                           *)
(***************************************************************************)
InitMove == PureIdle /\ OthersIdle

MoveSelectionOnList ==
    /\ probe.op = "none"
    /\ \E len \in 1..MaxItems, itemsPerRow \in 0..MaxItems, direction \in Directions :
         \E index \in 0..(len - 1) :
             LET items == [k \in 1..len |-> Entry(<<Name("a", <<k>>, "")>>, "file")]
                 s0 == setFileItems(InitialState(Root, Size(80, 24)), items)
                 s1 == setLayoutInfo(s0, itemsPerRow, 1)
                 s == setSelection(s1, index, ItemAt(items, index))
             IN probe' = [op |-> "moveSelection", before |-> s,
                          direction |-> direction,
                          after |-> moveSelection(s, direction)]
    /\ UNCHANGED othersVars

NextMove == MoveSelectionOnList

SpecMove == InitMove /\ [][NextMove]_vars

\* C23: from an index i inside a non-empty list of length len, moveSelection
\* selects: left, i - 1 but not below 0; right, i + 1 but not above len - 1;
\* up, i - itemsPerRow but not below 0; down, i + itemsPerRow but not above
\* len - 1, with the itemsPerRow the store has cached; and it changes the
\* selection only
C23_MoveArithmetic ==
    probe.op = "moveSelection" =>
        LET i == probe.before.selection.selectedIndex
            len == Len(probe.before.viewport.items)
            itemsPerRow == probe.before.viewport.itemsPerRow
            NotBelow0(n) == IF n < 0 THEN 0 ELSE n
            NotAboveLast(n) == IF n > len - 1 THEN len - 1 ELSE n
            expected == CASE probe.direction = "left" -> NotBelow0(i - 1)
                          [] probe.direction = "right" -> NotAboveLast(i + 1)
                          [] probe.direction = "up" -> NotBelow0(i - itemsPerRow)
                          [] probe.direction = "down" -> NotAboveLast(i + itemsPerRow)
        IN /\ probe.after.selection.selectedIndex = expected
           /\ probe.after.viewport = probe.before.viewport
           /\ probe.after.contextMenu = probe.before.contextMenu

\* down from the second entry of six, in rows of five, stops at the last
\* entry
C23_Witness ==
    /\ probe.op = "moveSelection"
    /\ probe.direction = "down"
    /\ Len(probe.before.viewport.items) = 6
    /\ probe.before.viewport.itemsPerRow = 5
    /\ probe.before.selection.selectedIndex = 1
    /\ probe.after.selection.selectedIndex = 5

(***************************************************************************)
(* SpecDecode: MouseHandler.handleMouseInput on one chunk read from stdin. *)
(* A report is what the terminal sends for one pointer event: in the SGR   *)
(* format the button code, the column and the row in decimal and the final *)
(* letter, in the legacy format three bytes.  The chunk reaches the        *)
(* handler as a string: stdin decodes its bytes as UTF-8.                  *)
(***************************************************************************)
\* the string a chunk of bytes becomes (stdin's 'utf8' encoding, or
\* Buffer.toString()), as character codes, for bytes up to 0xdf: an ASCII
\* byte is its character, a lead byte 0xc2..0xdf with a continuation byte
\* is one character, any other byte is U+FFFD
RECURSIVE decodeUtf8(_)
decodeUtf8(bytes) ==
    IF bytes = <<>>
    THEN <<>>
    ELSE IF bytes[1] < 128
         THEN <<bytes[1]>> \o decodeUtf8(Tail(bytes))
         ELSE IF bytes[1] \in 194..223 /\ Len(bytes) >= 2 /\ bytes[2] \in 128..191
              THEN <<(bytes[1] - 192) * 64 + (bytes[2] - 128)>>
                       \o decodeUtf8(SubSeq(bytes, 3, Len(bytes)))
              ELSE <<65533>> \o decodeUtf8(Tail(bytes))

\* parseInt of a string of digits
RECURSIVE parseInt(_)
parseInt(digits) ==
    IF digits = <<>>
    THEN 0
    ELSE parseInt(SubSeq(digits, 1, Len(digits) - 1)) * 10 + (digits[Len(digits)] - 48)

\* code & 3, then the switch; the null it returns is the string NullOp
parseButtonCode(code) ==
    CASE code % 4 = 0 -> "left"
      [] code % 4 = 1 -> "middle"
      [] code % 4 = 2 -> "right"
      [] OTHER -> NullOp

parseMouseEvent(sequence) ==
    LET \* the end of the longest run of digits (\d+) that starts at i
        digitsEnd(i) ==
            CHOOSE j \in (i - 1)..Len(sequence) :
                /\ \A k \in i..j : sequence[k] \in 48..57
                /\ j = Len(sequence) \/ sequence[j + 1] \notin 48..57
        e1 == digitsEnd(4)
        e2 == digitsEnd(e1 + 2)
        e3 == digitsEnd(e2 + 2)
        \* /^\x1b\[<(\d+);(\d+);(\d+)([Mm])/
        sgrMatch ==
            /\ Len(sequence) >= 3 /\ SubSeq(sequence, 1, 3) = <<27, 91, 60>>
            /\ e1 >= 4 /\ e1 < Len(sequence) /\ sequence[e1 + 1] = 59
            /\ e2 >= e1 + 2 /\ e2 < Len(sequence) /\ sequence[e2 + 1] = 59
            /\ e3 >= e2 + 2 /\ e3 < Len(sequence) /\ sequence[e3 + 1] \in {77, 109}
        sgrButton == parseButtonCode(parseInt(SubSeq(sequence, 4, e1)))
        isPress == sequence[e3 + 1] = 77
        legacyButton == parseButtonCode(sequence[4] - 32)
    IN IF sgrMatch /\ isPress /\ sgrButton # NullOp
       THEN MouseEvent(parseInt(SubSeq(sequence, e1 + 2, e2)) - 1,
                       parseInt(SubSeq(sequence, e2 + 2, e3)) - 1,
                       sgrButton)
       ELSE IF /\ Len(sequence) >= 6
               /\ SubSeq(sequence, 1, 3) = <<27, 91, 77>>
               /\ legacyButton # NullOp
            THEN MouseEvent(sequence[5] - 33, sequence[6] - 33, legacyButton)
            ELSE Null

\* handleMouseInput up to emitMouseEvent: the event it passes on, or null
handleMouseInput(data) ==
    LET input == decodeUtf8(data)
    IN IF Len(input) >= 2 /\ SubSeq(input, 1, 2) = <<27, 91>>
       THEN parseMouseEvent(input)
       ELSE Null

\* the bytes of a report
reportBytes(report) ==
    IF report.format = "sgr"
    THEN <<27, 91, 60>> \o Decimal(report.b) \o <<59>> \o Decimal(report.x)
             \o <<59>> \o Decimal(report.y) \o <<report.action>>
    ELSE <<27, 91, 77, report.b, report.x, report.y>>

\* SGR reports of plain, modified, motion and wheel button codes, pressed
\* ("M") and released ("m"); legacy reports of columns up to 167, that is
\* of column bytes below and above 0x80
Reports ==
    {[format |-> "sgr", b |-> b, x |-> x, y |-> y, action |-> action] :
        b \in {0, 1, 2, 3, 4, 6, 7, 32, 35, 64, 66}, x \in {1, 10, 100},
        y \in {1, 24}, action \in {77, 109}}
    \cup {[format |-> "legacy", b |-> b, x |-> x, y |-> y] :
        b \in {32, 33, 34, 35, 36, 39, 64, 96}, x \in {33, 34, 127, 128, 195, 200},
        y \in {33, 60, 160}}

InitDecode == PureIdle /\ OthersIdle

HandleMouseInput ==
    /\ probe.op = "none"
    /\ \E report \in Reports :
           probe' = [op |-> "handleMouseInput", report |-> report,
                     event |-> handleMouseInput(reportBytes(report))]
    /\ UNCHANGED othersVars

NextDecode == HandleMouseInput

SpecDecode == InitDecode /\ [][NextDecode]_vars

\* C32: an SGR press ESC [ < b ; x ; y M is decoded to a click at
\* (x - 1, y - 1) whose button is given by the low 2 bits of b (0 left,
\* 1 middle, 2 right); an SGR release (final "m") gives no event; a legacy
\* report ESC [ M and 3 bytes is decoded to a click at (x byte - 33,
\* y byte - 33) whose button is given by the low 2 bits of the button
\* byte - 32; a button value of 3 gives no event in either format
C32_PointerDecodeTable ==
    probe.op = "handleMouseInput" =>
        LET report == probe.report
            sgr == report.format = "sgr"
            value == (IF sgr THEN report.b ELSE report.b - 32) % 4
            button == CASE value = 0 -> "left" [] value = 1 -> "middle"
                        [] value = 2 -> "right" [] OTHER -> NullOp
        IN probe.event =
               IF value = 3 \/ (sgr /\ report.action = 109)
               THEN Null
               ELSE IF sgr
                    THEN MouseEvent(report.x - 1, report.y - 1, button)
                    ELSE MouseEvent(report.x - 33, report.y - 33, button)

(***************************************************************************)
(* SpecDecoders: start() and stop() of the two input decoders, called in   *)
(* any order on the one process.stdin they share.  `probe.io` holds        *)
(*   mouse, keyboard   each decoder's isListening                          *)
(*   dataListeners     the 'data' listeners on stdin, by their owner, in   *)
(*                     the order they were added                           *)
(*   tracking          the mouse tracking modes that are switched on       *)
(*   rawMode, flowing  stdin's raw mode, and whether it is resumed         *)
(*   isTTY             process.stdin.isTTY                                 *)
(* and `probe.written` counts the control sequences the last call wrote.   *)
(***************************************************************************)
MaxDataListeners == 3

TrackingModes == {1000, 1002, 1015, 1006}

\* MouseHandler.start
MouseHandler_start(io) ==
    IF io.mouse
    THEN [io |-> io, written |-> 0]
    ELSE [io |-> [io EXCEPT !.tracking = TrackingModes,
                            !.dataListeners = Append(@, "mouse"),
                            !.mouse = TRUE],
          written |-> Cardinality(TrackingModes)]

\* MouseHandler.stop
MouseHandler_stop(io) ==
    IF ~io.mouse
    THEN [io |-> io, written |-> 0]
    ELSE [io |-> [io EXCEPT !.tracking = {}, !.mouse = FALSE],
          written |-> Cardinality(TrackingModes)]

\* KeyboardHandler.start
KeyboardHandler_start(io) ==
    IF io.keyboard
    THEN [io |-> io, written |-> 0]
    ELSE [io |-> [io EXCEPT !.rawMode = IF io.isTTY THEN TRUE ELSE @,
                            !.flowing = TRUE,
                            !.dataListeners = Append(@, "keyboard"),
                            !.keyboard = TRUE],
          written |-> 0]

\* KeyboardHandler.stop: removeAllListeners('data')
KeyboardHandler_stop(io) ==
    IF ~io.keyboard
    THEN [io |-> io, written |-> 0]
    ELSE [io |-> [io EXCEPT !.dataListeners = <<>>,
                            !.rawMode = IF io.isTTY THEN FALSE ELSE @,
                            !.flowing = FALSE,
                            !.keyboard = FALSE],
          written |-> 0]

\* both decoders constructed, nothing started
InitDecoders ==
    /\ \E isTTY \in BOOLEAN :
           probe = [op |-> "decoders", last |-> "constructed", written |-> 0,
                    io |-> [mouse |-> FALSE, keyboard |-> FALSE, dataListeners |-> <<>>,
                            tracking |-> {}, rawMode |-> FALSE, flowing |-> FALSE,
                            isTTY |-> isTTY]]
    /\ OthersIdle

DecoderCall(method, result) ==
    /\ Len(result.io.dataListeners) <= MaxDataListeners
    /\ probe' = [probe EXCEPT !.last = method, !.io = result.io, !.written = result.written]
    /\ UNCHANGED othersVars

MouseStart == DecoderCall("mouse.start", MouseHandler_start(probe.io))

MouseStop == DecoderCall("mouse.stop", MouseHandler_stop(probe.io))

KeyboardStart == DecoderCall("keyboard.start", KeyboardHandler_start(probe.io))

KeyboardStop == DecoderCall("keyboard.stop", KeyboardHandler_stop(probe.io))

NextDecoders == MouseStart \/ MouseStop \/ KeyboardStart \/ KeyboardStop

SpecDecoders == InitDecoders /\ [][NextDecoders]_vars

\* C33: start() of a decoder that listens and stop() of one that does not
\* write no control sequence and add or remove no input listener; after a
\* stop() the modes its start() enabled are off (no mouse tracking mode for
\* the pointer decoder, no raw mode for the keyboard decoder); after a
\* start() exactly one input listener of that decoder is attached
C33_DecoderStartStop ==
    [][LET before == probe.io
           after == probe'.io
           last == probe'.last
           attached(owner) ==
               Cardinality({i \in 1..Len(after.dataListeners) :
                               after.dataListeners[i] = owner})
       IN /\ \/ last = "mouse.start" /\ before.mouse
             \/ last = "mouse.stop" /\ ~before.mouse
             \/ last = "keyboard.start" /\ before.keyboard
             \/ last = "keyboard.stop" /\ ~before.keyboard
             => probe'.written = 0 /\ after = before
          /\ last = "mouse.stop" => after.tracking = {}
          /\ last = "keyboard.stop" => ~after.rawMode
          /\ last = "mouse.start" => attached("mouse") = 1
          /\ last = "keyboard.start" => attached("keyboard") = 1]_vars

(***************************************************************************)
(* SpecRound: one emit of the bus, or one notification round of the store, *)
(* over handlers some of which unsubscribe themselves when they are        *)
(* invoked, by calling the function that on() or subscribe() returned.     *)
(***************************************************************************)
MaxRound == 3

\* a handler, and whether it unsubscribes itself when invoked
RoundHandler(id, once) == [id |-> id, once |-> once]

\* the function on() and subscribe() return: indexOf, then splice
spliceOut(list, handler) ==
    IF \E i \in 1..Len(list) : list[i] = handler
    THEN RemoveAt(list, CHOOSE i \in 1..Len(list) :
                            list[i] = handler /\ \A j \in 1..(i - 1) : list[j] # handler)
    ELSE list

\* Array.prototype.forEach from the k-th element on: the length is read
\* once, before the first call, and an index the array no longer has is
\* passed over
RECURSIVE forEach(_, _, _, _)
forEach(list, k, len, invoked) ==
    IF k > len
    THEN [list |-> list, invoked |-> invoked]
    ELSE IF k > Len(list)
         THEN forEach(list, k + 1, len, invoked)
         ELSE forEach(IF list[k].once THEN spliceOut(list, list[k]) ELSE list,
                      k + 1, len, Append(invoked, list[k]))

\* the handler lists of a round: up to MaxRound different handlers
RoundLists ==
    {list \in UNION {[1..n -> {RoundHandler(id, once) : id \in 1..MaxRound, once \in BOOLEAN}] :
                        n \in 0..MaxRound} :
        \A i, j \in 1..Len(list) : i # j => list[i].id # list[j].id}

InitRound == PureIdle /\ OthersIdle

Round(op) ==
    /\ probe.op = "none"
    /\ \E list \in RoundLists :
           LET result == forEach(list, 1, Len(list), <<>>)
           IN probe' = [op |-> op, before |-> list, after |-> result.list,
                        invoked |-> result.invoked]
    /\ UNCHANGED othersVars

\* SimpleEventBus.emit on a topic with these handlers
EmitRound == Round("emit")

\* StateManager.notifyListeners with these listeners
NotifyRound == Round("notifyListeners")

NextRound == EmitRound \/ NotifyRound

SpecRound == InitRound /\ [][NextRound]_vars

\* C34: when handlers unsubscribe themselves during an emit or a store
\* notification round, every handler that was subscribed when the round
\* began is invoked exactly once in that round
C34_RoundReachesAll ==
    probe.op \in {"emit", "notifyListeners"} =>
        \A i \in 1..Len(probe.before) :
            Cardinality({k \in 1..Len(probe.invoked) :
                            probe.invoked[k] = probe.before[i]}) = 1

(***************************************************************************)
(* SpecHit: one frame is rendered for a list of entries with short names,  *)
(* none selected, and the pointer is pressed on one cell of the screen.    *)
(***************************************************************************)
\* createFileItem for an unselected entry whose name has at most 9
\* characters: the visible width of its lines, three of the icon (7
\* characters) and one of the name (9), each between two spaces either side
itemLineWidths == <<11, 11, 11, 13>>

\* renderFileGrid, then render: the items whose lines cover the screen cell
\* (column, row).  An item's line lineIndex goes to row position.y +
\* lineIndex of the grid buffer, from column position.x on, if the buffer
\* has that row; render writes three lines before the buffer and one border
\* character before each of its lines
renderedItems(column, row, totalItems, layout) ==
    LET maxY == layout.startY + layout.totalRows * layout.itemHeight
    IN {i \in 0..(totalItems - 1) :
           LET position == getItemPosition(i, layout)
           IN \E lineIndex \in 0..(Len(itemLineWidths) - 1) :
                  LET targetY == position.y + lineIndex
                  IN /\ targetY < maxY
                     /\ row = 3 + targetY
                     /\ column >= 1 + position.x
                     /\ column < 1 + position.x + itemLineWidths[lineIndex + 1]}

InitHit == PureIdle /\ OthersIdle

\* render() and handleMouseClick both take calculateLayout(terminalSize)
RenderAndClick ==
    /\ probe.op = "none"
    /\ \E terminalSize \in TerminalSizes, totalItems \in 1..MaxItems,
          x \in 0..MaxWidth, y \in 0..MaxHeight :
           LET layout == calculateLayout(terminalSize)
           IN probe' = [op |-> "hitTest", terminalSize |-> terminalSize,
                        totalItems |-> totalItems, x |-> x, y |-> y,
                        drawn |-> renderedItems(x, y, totalItems, layout),
                        index |-> getItemIndexFromPosition(x, y, layout, totalItems)]
    /\ UNCHANGED othersVars

NextHit == RenderAndClick

SpecHit == InitHit /\ [][NextHit]_vars

\* C38: a click on a screen cell that the drawn block of item i covers
\* selects item i (getItemIndexFromPosition gives i), and a click on a cell
\* where no item is drawn selects no item (it gives -1)
C38_HitTestAgreesWithRender ==
    probe.op = "hitTest" =>
        IF probe.drawn = {} THEN probe.index = -1 ELSE probe.index \in probe.drawn

(***************************************************************************)
(* SpecReport: SGR reports read from stdin at increasing times pass        *)
(* through handleMouseInput: parseMouseEvent, then emitMouseEvent for an   *)
(* event that was decoded.  With mode 1002 on, the terminal reports a      *)
(* move of the pointer while a button is held with the button code plus    *)
(* 32, and a turn of the wheel with the button code plus 64.               *)
(***************************************************************************)
\* presses and releases of the left button, moves with it held (32), wheel
\* turns (64, 65) and a move with no button held (35), on two neighbouring
\* cells
SgrReports ==
    {[format |-> "sgr", b |-> b, x |-> x, y |-> 5, action |-> action] :
        b \in {0, 32, 35, 64, 65}, x \in {5, 6}, action \in {77, 109}}

ReportInput ==
    \E report \in SgrReports, delay \in {100, 500} :
        LET event == handleMouseInput(reportBytes(report))
            result == IF event = Null
                      THEN [mouse |-> mouse, emitted |-> "none"]
                      ELSE emitMouseEvent(mouse, event, now + delay)
        IN /\ Len(clicks) < MaxClicks
           /\ now' = now + delay
           /\ mouse' = result.mouse
           /\ clicks' = Append(clicks, [report |-> report, time |-> now + delay,
                                        emitted |-> result.emitted])
           /\ UNCHANGED <<ctlVars, storeVars, lifeVars, busVars, pureVars>>

NextReport == ReportInput

SpecReport == InitMouse /\ [][NextReport]_vars

\* C39: an SGR report whose button code has the motion bit (32) or the
\* wheel bit (64) set is emitted neither as a click nor as a double-click;
\* so a press of the left button followed within 300 ms by a move of one
\* cell is no double-click
C39_MotionAndWheelAreNoClicks ==
    \A i \in 1..Len(clicks) :
        LET b == clicks[i].report.b
        IN (b \div 32) % 2 = 1 \/ (b \div 64) % 2 = 1 => clicks[i].emitted = "none"

====
